---- MODULE Spec2Model ----
(***************************************************************************)
(* Model of the scop OBJ ingestion core: the OBJ face-token parser, the    *)
(* line-by-line loader with its per-material mesh assembly, the face       *)
(* triangulator, the scene builder and the face shading of the scene       *)
(* model.                                                                  *)
(*                                                                         *)
(* Text is modelled at character level: a string is a sequence of          *)
(* one-character strings.  Option<T> is a sequence of length 0 (None) or   *)
(* 1 (Some).  Result<T, String> is a record with an ok flag.               *)
(***************************************************************************)
EXTENDS Integers, Sequences, FiniteSets, TLC

VARIABLES
    tok,        \* parse_face_vertex call: its arguments and its result
    tri,        \* triangulate_face call: its face and its outcome
    scene,      \* the SceneModel: its meshes, base colour and cached centre
    ld,         \* load / build_scene_model call: the locals of the loader
    bmp,        \* BMP::read call: the file, the build and what read left behind
    img,        \* an Image and the last get_pixel call on it
    mtl         \* load_mtl call: the lines of the file and the result

vars == <<tok, tri, scene, ld, bmp, img, mtl>>

(***************************************************************************)
(* Generic helpers                                                         *)
(***************************************************************************)
None == <<>>
Some(v) == <<v>>
IsSome(o) == Len(o) = 1
Unwrap(o) == o[1]

Range(s) == {s[i] : i \in 1..Len(s)}

SeqsUpTo(S, lo, hi) == UNION {[1..n -> S] : n \in lo..hi}

(***************************************************************************)
(* loaders/obj/index.rs                                                    *)
(***************************************************************************)
DigitChars == <<"0", "1", "2", "3", "4", "5", "6", "7", "8", "9">>

IsDigit(c) == \E d \in 1..Len(DigitChars) : DigitChars[d] = c

DigitVal(c) == (CHOOSE d \in 1..Len(DigitChars) : DigitChars[d] = c) - 1

\* str::split('/'): the fields between the separators; always at least one.
RECURSIVE SplitAcc(_, _, _, _)
SplitAcc(s, sep, done, cur) ==
    IF s = <<>> THEN Append(done, cur)
    ELSE IF Head(s) = sep THEN SplitAcc(Tail(s), sep, Append(done, cur), <<>>)
    ELSE SplitAcc(Tail(s), sep, done, Append(cur, Head(s)))

Split(s, sep) == SplitAcc(s, sep, <<>>, <<>>)

RECURSIVE DigitsValue(_, _)
DigitsValue(ds, acc) ==
    IF ds = <<>> THEN acc ELSE DigitsValue(Tail(ds), acc * 10 + DigitVal(Head(ds)))

\* str::parse::<isize>(): optional sign, then one or more decimal digits.
ParseIsize(raw) ==
    LET signed == raw # <<>> /\ Head(raw) \in {"+", "-"}
        digits == IF signed THEN Tail(raw) ELSE raw
    IN  IF digits = <<>> \/ \E i \in 1..Len(digits) : ~IsDigit(digits[i])
        THEN [ok |-> FALSE, val |-> 0]
        ELSE [ok |-> TRUE,
              val |-> IF signed /\ Head(raw) = "-"
                      THEN 0 - DigitsValue(digits, 0)
                      ELSE DigitsValue(digits, 0)]

parse_obj_index_NoRelative(raw, count) ==
    LET parsed == ParseIsize(raw)
    IN  IF ~parsed.ok THEN [ok |-> FALSE, err |-> "invalid index", val |-> 0]
        ELSE IF parsed.val = 0
        THEN [ok |-> FALSE, err |-> "index 0 is invalid", val |-> 0]
        ELSE IF count = 0
        THEN [ok |-> FALSE, err |-> "referenced before any data", val |-> 0]
        ELSE LET resolved == IF parsed.val > 0 THEN parsed.val - 1
                             ELSE count + parsed.val - 1
             IN  IF resolved < 0 \/ resolved >= count
                 THEN [ok |-> FALSE, err |-> "out of bounds", val |-> 0]
                 ELSE [ok |-> TRUE, err |-> "", val |-> resolved]

parse_obj_index_NoUpperBound(raw, count) ==
    LET parsed == ParseIsize(raw)
    IN  IF ~parsed.ok THEN [ok |-> FALSE, err |-> "invalid index", val |-> 0]
        ELSE IF parsed.val = 0
        THEN [ok |-> FALSE, err |-> "index 0 is invalid", val |-> 0]
        ELSE IF count = 0
        THEN [ok |-> FALSE, err |-> "referenced before any data", val |-> 0]
        ELSE LET resolved == IF parsed.val > 0 THEN parsed.val - 1
                             ELSE count + parsed.val
             IN  IF resolved < 0
                 THEN [ok |-> FALSE, err |-> "out of bounds", val |-> 0]
                 ELSE [ok |-> TRUE, err |-> "", val |-> resolved]

parse_obj_index(raw, count) ==
    LET parsed == ParseIsize(raw)
    IN  IF ~parsed.ok THEN [ok |-> FALSE, err |-> "invalid index", val |-> 0]
        ELSE IF parsed.val = 0
        THEN [ok |-> FALSE, err |-> "index 0 is invalid", val |-> 0]
        ELSE IF count = 0
        THEN [ok |-> FALSE, err |-> "referenced before any data", val |-> 0]
        ELSE LET resolved == IF parsed.val > 0 THEN parsed.val - 1
                             ELSE count + parsed.val
             IN  IF resolved < 0 \/ resolved >= count
                 THEN [ok |-> FALSE, err |-> "out of bounds", val |-> 0]
                 ELSE [ok |-> TRUE, err |-> "", val |-> resolved]

FaceVertexErr(msg) == [ok |-> FALSE, err |-> msg, p |-> 0, t |-> None, n |-> None]

parse_face_vertex(token, positions_len, texcoords_len, normals_len) ==
    LET fields == Split(token, "/")
    IN  IF Len(fields) > 3 THEN FaceVertexErr("invalid face vertex token")
        ELSE IF fields[1] = <<>> THEN FaceVertexErr("missing vertex position index")
        ELSE
        LET position == parse_obj_index(fields[1], positions_len)
            hasT == Len(fields) > 1 /\ fields[2] # <<>>
            hasN == Len(fields) > 2 /\ fields[3] # <<>>
        IN  IF ~position.ok THEN FaceVertexErr(position.err)
            ELSE
            LET texcoord == IF hasT THEN parse_obj_index(fields[2], texcoords_len)
                            ELSE [ok |-> TRUE, err |-> "", val |-> 0]
            IN  IF ~texcoord.ok THEN FaceVertexErr(texcoord.err)
                ELSE
                LET normal == IF hasN THEN parse_obj_index(fields[3], normals_len)
                              ELSE [ok |-> TRUE, err |-> "", val |-> 0]
                IN  IF ~normal.ok THEN FaceVertexErr(normal.err)
                    ELSE [ok |-> TRUE, err |-> "",
                          p |-> position.val,
                          t |-> IF hasT THEN Some(texcoord.val) ELSE None,
                          n |-> IF hasN THEN Some(normal.val) ELSE None]

(***************************************************************************)
(* loaders/obj/triangulate.rs                                              *)
(*                                                                         *)
(* Coordinates are integers, so every quantity the code compares with      *)
(* EPSILON = 1e-9 is an integer (the signed area a half-integer): x >      *)
(* EPSILON is x > 0, x < -EPSILON is x < 0 and |x| <= EPSILON is x = 0.    *)
(* polygon_signed_area is kept doubled (the code's 0.5 * sum).             *)
(***************************************************************************)
Abs(x) == IF x < 0 THEN 0 - x ELSE x
MinOf(a, b) == IF a < b THEN a ELSE b
MaxOf(a, b) == IF a > b THEN a ELSE b

Robust(triangles) == [kind |-> "Robust", triangles |-> triangles]
FallbackFan == [kind |-> "FallbackFan", triangles |-> <<>>]

nearly_equal3(a, b) == a[1] = b[1] /\ a[2] = b[2] /\ a[3] = b[3]

\* Position of face corner i (0-based) of a face of 0-based position indices.
CornerPos(face, positions, i) == positions[face[i + 1].p + 1]

\* Lines 22-33: drop a corner equal to the last corner kept.
RECURSIVE DropConsecutive(_, _, _, _)
DropConsecutive(face, positions, i, kept) ==
    IF i >= Len(face) THEN kept
    ELSE LET dup == kept # <<>> /\
                    nearly_equal3(CornerPos(face, positions, i),
                                  CornerPos(face, positions, kept[Len(kept)]))
         IN  DropConsecutive(face, positions, i + 1,
                             IF dup THEN kept ELSE Append(kept, i))

\* Lines 22-43: the kept corners, less a last one equal to the first.
cleaned_original_indices(face, positions) ==
    LET kept == DropConsecutive(face, positions, 0, <<>>)
    IN  IF Len(kept) >= 2 /\ nearly_equal3(CornerPos(face, positions, kept[1]),
                                           CornerPos(face, positions, kept[Len(kept)]))
        THEN SubSeq(kept, 1, Len(kept) - 1)
        ELSE kept

RECURSIVE NewellSum(_, _, _)
NewellSum(points, i, acc) ==
    IF i > Len(points) THEN acc
    ELSE LET current == points[i]
             next == points[(i % Len(points)) + 1]
         IN  NewellSum(points, i + 1,
                <<acc[1] + (current[2] - next[2]) * (current[3] + next[3]),
                  acc[2] + (current[3] - next[3]) * (current[1] + next[1]),
                  acc[3] + (current[1] - next[1]) * (current[2] + next[2])>>)

newell_normal(points) == NewellSum(points, 1, <<0, 0, 0>>)

project_to_2d(points, normal) ==
    LET ax == Abs(normal[1])
        ay == Abs(normal[2])
        az == Abs(normal[3])
    IN  IF ax >= ay /\ ax >= az
        THEN [i \in 1..Len(points) |-> [x |-> points[i][2], y |-> points[i][3]]]
        ELSE IF ay >= az
        THEN [i \in 1..Len(points) |-> [x |-> points[i][1], y |-> points[i][3]]]
        ELSE [i \in 1..Len(points) |-> [x |-> points[i][1], y |-> points[i][2]]]

RECURSIVE ShoelaceSum(_, _, _)
ShoelaceSum(points, i, acc) ==
    IF i > Len(points) THEN acc
    ELSE LET a == points[i]
             b == points[(i % Len(points)) + 1]
         IN  ShoelaceSum(points, i + 1, acc + a.x * b.y - b.x * a.y)

\* Twice the code's value (0.5 * sum).
polygon_signed_area(points) == ShoelaceSum(points, 1, 0)

orient(a, b, c) == (b.x - a.x) * (c.y - a.y) - (b.y - a.y) * (c.x - a.x)

on_segment(a, b, p) ==
    /\ p.x >= MinOf(a.x, b.x)
    /\ p.x <= MaxOf(a.x, b.x)
    /\ p.y >= MinOf(a.y, b.y)
    /\ p.y <= MaxOf(a.y, b.y)

segments_intersect_OnlyTouching(a, b, c, d) ==
    \/ (orient(a, b, c) = 0 /\ on_segment(a, b, c))
    \/ (orient(a, b, d) = 0 /\ on_segment(a, b, d))
    \/ (orient(c, d, a) = 0 /\ on_segment(c, d, a))
    \/ (orient(c, d, b) = 0 /\ on_segment(c, d, b))

segments_intersect(a, b, c, d) ==
    LET o1 == orient(a, b, c)
        o2 == orient(a, b, d)
        o3 == orient(c, d, a)
        o4 == orient(c, d, b)
        proper_intersection ==
            /\ (o1 > 0 /\ o2 < 0) \/ (o1 < 0 /\ o2 > 0)
            /\ (o3 > 0 /\ o4 < 0) \/ (o3 < 0 /\ o4 > 0)
    IN  \/ proper_intersection
        \/ (o1 = 0 /\ on_segment(a, b, c))
        \/ (o2 = 0 /\ on_segment(a, b, d))
        \/ (o3 = 0 /\ on_segment(c, d, a))
        \/ (o4 = 0 /\ on_segment(c, d, b))

\* Edge i runs from point i to point (i + 1) % len (0-based).
EdgePairSkipped(i, j, len) ==
    LET i_next == (i + 1) % len
        j_next == (j + 1) % len
    IN  \/ i = j \/ i_next = j \/ j_next = i
        \/ (i = 0 /\ j_next = 0)

has_self_intersections(points) ==
    LET len == Len(points)
    IN  \E i \in 0..(len - 1) : \E j \in (i + 1)..(len - 1) :
            /\ ~EdgePairSkipped(i, j, len)
            /\ segments_intersect(points[i + 1], points[((i + 1) % len) + 1],
                                  points[j + 1], points[((j + 1) % len) + 1])

is_convex_IgnoresWinding(prev, curr, next, ccw) == orient(prev, curr, next) > 0

is_convex(prev, curr, next, ccw) ==
    LET cross == orient(prev, curr, next)
    IN  IF ccw THEN cross > 0 ELSE cross < 0

point_in_triangle(p, a, b, c) ==
    LET d1 == orient(p, a, b)
        d2 == orient(p, b, c)
        d3 == orient(p, c, a)
        has_neg == d1 < 0 \/ d2 < 0 \/ d3 < 0
        has_pos == d1 > 0 \/ d2 > 0 \/ d3 > 0
    IN  ~(has_neg /\ has_pos)

\* Lines 209-237: whether the corner at place i (0-based) of remaining is an ear.
IsEar(points, remaining, ccw, i) ==
    LET len == Len(remaining)
        prev == remaining[((i + len - 1) % len) + 1]
        curr == remaining[i + 1]
        next == remaining[((i + 1) % len) + 1]
    IN  /\ is_convex(points[prev + 1], points[curr + 1], points[next + 1], ccw)
        /\ Abs(orient(points[prev + 1], points[curr + 1], points[next + 1])) > 0
        /\ ~\E k \in 1..len :
                /\ remaining[k] \notin {prev, curr, next}
                /\ point_in_triangle(points[remaining[k] + 1], points[prev + 1],
                                     points[curr + 1], points[next + 1])

RemoveAt(s, i) == SubSeq(s, 1, i) \o SubSeq(s, i + 2, Len(s))

\* Lines 205-255: one pass of the while loop per call.
RECURSIVE EarClipLoop(_, _, _, _)
EarClipLoop(points, ccw, remaining, triangles) ==
    IF Len(remaining) > 3
    THEN LET len == Len(remaining)
             ears == {i \in 0..(len - 1) : IsEar(points, remaining, ccw, i)}
         IN  IF ears = {} THEN None
             ELSE LET i == CHOOSE e \in ears : \A o \in ears : e <= o
                      prev == remaining[((i + len - 1) % len) + 1]
                      curr == remaining[i + 1]
                      next == remaining[((i + 1) % len) + 1]
                  IN  EarClipLoop(points, ccw, RemoveAt(remaining, i),
                                  Append(triangles, <<prev, curr, next>>))
    ELSE IF Len(remaining) = 3
    THEN Some(Append(triangles, <<remaining[1], remaining[2], remaining[3]>>))
    ELSE None

\* Leaves out the triangle of the last three corners.
ear_clip_WithoutLast(points, ccw) ==
    LET clipped == EarClipLoop(points, ccw, [i \in 1..Len(points) |-> i - 1], <<>>)
    IN  IF IsSome(clipped)
        THEN Some(SubSeq(Unwrap(clipped), 1, Len(Unwrap(clipped)) - 1))
        ELSE None

ear_clip(points, ccw) ==
    EarClipLoop(points, ccw, [i \in 1..Len(points) |-> i - 1], <<>>)

\* triangulate_face up to its call of ear_clip: None where it returns
\* FallbackFan before, else the kept corners, their projection and the winding.
clip_input(face, positions) ==
    IF Len(face) < 3 THEN None
    ELSE
    LET cleaned == cleaned_original_indices(face, positions)
    IN  IF Len(cleaned) < 3 THEN None
        ELSE
        LET cleaned_positions ==
                [k \in 1..Len(cleaned) |-> CornerPos(face, positions, cleaned[k])]
            normal == newell_normal(cleaned_positions)
            normal_len2 == normal[1] * normal[1] + normal[2] * normal[2]
                            + normal[3] * normal[3]
        IN  IF normal_len2 <= 0 THEN None
            ELSE
            LET projected == project_to_2d(cleaned_positions, normal)
                signed_area == polygon_signed_area(projected)
            IN  IF Abs(signed_area) <= 0 THEN None
                ELSE IF has_self_intersections(projected) THEN None
                ELSE Some([cleaned |-> cleaned, points |-> projected,
                           ccw |-> signed_area > 0])

\* A pass that pushes the ear's triangle and leaves the corner in the list.
clip_pass_KeepsCorner(points, ccw, remaining, triangles) ==
    LET len == Len(remaining)
        ears == {i \in 0..(len - 1) : IsEar(points, remaining, ccw, i)}
    IN  IF ears = {}
        THEN [ear_found |-> FALSE, remaining |-> remaining, triangles |-> triangles]
        ELSE LET i == CHOOSE e \in ears : \A o \in ears : e <= o
                 prev == remaining[((i + len - 1) % len) + 1]
                 curr == remaining[i + 1]
                 next == remaining[((i + 1) % len) + 1]
             IN  [ear_found |-> TRUE,
                  remaining |-> remaining,
                  triangles |-> Append(triangles, <<prev, curr, next>>)]

\* One pass of the while loop of ear_clip: the scan for the first ear.
clip_pass(points, ccw, remaining, triangles) ==
    LET len == Len(remaining)
        ears == {i \in 0..(len - 1) : IsEar(points, remaining, ccw, i)}
    IN  IF ears = {}
        THEN [ear_found |-> FALSE, remaining |-> remaining, triangles |-> triangles]
        ELSE LET i == CHOOSE e \in ears : \A o \in ears : e <= o
                 prev == remaining[((i + len - 1) % len) + 1]
                 curr == remaining[i + 1]
                 next == remaining[((i + 1) % len) + 1]
             IN  [ear_found |-> TRUE,
                  remaining |-> RemoveAt(remaining, i),
                  triangles |-> Append(triangles, <<prev, curr, next>>)]

\* ear_clip after its loop, and the mapping back to the corners of the face.
clip_result(cleaned, remaining, triangles) ==
    IF Len(remaining) = 3
    THEN LET local_triangles ==
                Append(triangles, <<remaining[1], remaining[2], remaining[3]>>)
         IN  Robust([k \in 1..Len(local_triangles) |->
                        <<cleaned[local_triangles[k][1] + 1],
                          cleaned[local_triangles[k][2] + 1],
                          cleaned[local_triangles[k][3] + 1]>>])
    ELSE FallbackFan

\* Returns the triangles over the cleaned corners as they are.
triangulate_face_LocalIndices(face, positions) ==
    IF Len(face) < 3 THEN FallbackFan
    ELSE
    LET cleaned == cleaned_original_indices(face, positions)
    IN  IF Len(cleaned) < 3 THEN FallbackFan
        ELSE
        LET cleaned_positions ==
                [k \in 1..Len(cleaned) |-> CornerPos(face, positions, cleaned[k])]
            normal == newell_normal(cleaned_positions)
            normal_len2 == normal[1] * normal[1] + normal[2] * normal[2]
                            + normal[3] * normal[3]
        IN  IF normal_len2 <= 0 THEN FallbackFan
            ELSE
            LET projected == project_to_2d(cleaned_positions, normal)
                signed_area == polygon_signed_area(projected)
            IN  IF Abs(signed_area) <= 0 THEN FallbackFan
                ELSE IF has_self_intersections(projected) THEN FallbackFan
                ELSE
                LET local_triangles == ear_clip(projected, signed_area > 0)
                IN  IF ~IsSome(local_triangles) THEN FallbackFan
                    ELSE Robust([k \in 1..Len(Unwrap(local_triangles)) |->
                            LET t == Unwrap(local_triangles)[k]
                            IN  <<t[1], t[2], t[3]>>])

triangulate_face(face, positions) ==
    IF Len(face) < 3 THEN FallbackFan
    ELSE
    LET cleaned == cleaned_original_indices(face, positions)
    IN  IF Len(cleaned) < 3 THEN FallbackFan
        ELSE
        LET cleaned_positions ==
                [k \in 1..Len(cleaned) |-> CornerPos(face, positions, cleaned[k])]
            normal == newell_normal(cleaned_positions)
            normal_len2 == normal[1] * normal[1] + normal[2] * normal[2]
                            + normal[3] * normal[3]
        IN  IF normal_len2 <= 0 THEN FallbackFan
            ELSE
            LET projected == project_to_2d(cleaned_positions, normal)
                signed_area == polygon_signed_area(projected)
            IN  IF Abs(signed_area) <= 0 THEN FallbackFan
                ELSE IF has_self_intersections(projected) THEN FallbackFan
                ELSE
                LET local_triangles == ear_clip(projected, signed_area > 0)
                IN  IF ~IsSome(local_triangles) THEN FallbackFan
                    ELSE Robust([k \in 1..Len(Unwrap(local_triangles)) |->
                            LET t == Unwrap(local_triangles)[k]
                            IN  <<cleaned[t[1] + 1], cleaned[t[2] + 1],
                                  cleaned[t[3] + 1]>>])

(***************************************************************************)
(* scene/coloring.rs, scene/bounds.rs, scene/model.rs                      *)
(*                                                                         *)
(* Colours are fixed-point: a channel c is held as c * 1100, a brightness  *)
(* b as b * 110, so base * brightness is exact whenever the base is a      *)
(* multiple of 0.1.  The rounding of f32 is not modelled.                  *)
(***************************************************************************)
ColorOne == 10 * 110
BrightnessOne == 2 * 55
RampSteps == 11

Vector3Zero == <<0, 0, 0>>

face_brightness_NoWrap(face_index) == face_index * 6 + 44

\* ((face_index % 11) as f32 / 11.0) * 0.6 + 0.4, times 110.
face_brightness(face_index) == (face_index % RampSteps) * 6 + 44

ShadeChannel(base, brightness) == MinOf((base * brightness) \div BrightnessOne, ColorOne)

ShadeColor(base_color, brightness) ==
    <<ShadeChannel(base_color[1], brightness),
      ShadeChannel(base_color[2], brightness),
      ShadeChannel(base_color[3], brightness)>>

\* The three indices of triangle face_index (0-based) of an index buffer.
Triangle(indices, face_index) ==
    {indices[3 * face_index + 1], indices[3 * face_index + 2], indices[3 * face_index + 3]}

\* chunks_exact(3): a trailing partial chunk is not a triangle.
TriangleCount(indices) == Len(indices) \div 3

RECURSIVE ApplyFaceShadingFrom(_, _, _, _)
ApplyFaceShadingFrom(vertices, indices, base_color, face_index) ==
    IF face_index >= TriangleCount(indices) THEN vertices
    ELSE LET color == ShadeColor(base_color, face_brightness(face_index))
             tri_idx == Triangle(indices, face_index)
         IN  ApplyFaceShadingFrom(
                [v \in 1..Len(vertices) |->
                    IF (v - 1) \in tri_idx
                    THEN [vertices[v] EXCEPT !.color = color, !.new_color = color]
                    ELSE vertices[v]],
                indices, base_color, face_index + 1)

apply_face_shading(vertices, indices, base_color) ==
    ApplyFaceShadingFrom(vertices, indices, base_color, 0)

RECURSIVE ApplyNewColorFrom(_, _, _, _)
ApplyNewColorFrom(vertices, indices, color, face_index) ==
    IF face_index >= TriangleCount(indices) THEN vertices
    ELSE LET shaded_color == ShadeColor(color, face_brightness(face_index))
             tri_idx == Triangle(indices, face_index)
         IN  ApplyNewColorFrom(
                [v \in 1..Len(vertices) |->
                    IF (v - 1) \in tri_idx
                    THEN [vertices[v] EXCEPT !.new_color = shaded_color]
                    ELSE vertices[v]],
                indices, color, face_index + 1)

apply_new_color_Unshaded(vertices, indices, color) ==
    [v \in 1..Len(vertices) |->
        IF \E i \in 1..Len(indices) : indices[i] = v - 1
        THEN [vertices[v] EXCEPT !.new_color = color]
        ELSE vertices[v]]

apply_new_color(vertices, indices, color) ==
    ApplyNewColorFrom(vertices, indices, color, 0)

AllVertices(meshes) ==
    UNION {Range(meshes[m].vertices) : m \in 1..Len(meshes)}

\* min_max_axis and center_from_range: (min + max) * 0.5, kept doubled.
CenterAxis(meshes, axis) ==
    LET values == {v.position[axis] : v \in AllVertices(meshes)}
    IN  IF values = {} THEN 0
        ELSE (CHOOSE lo \in values : \A o \in values : lo <= o)
             + (CHOOSE hi \in values : \A o \in values : hi >= o)

center_all_axes(meshes) ==
    <<CenterAxis(meshes, 1), CenterAxis(meshes, 2), CenterAxis(meshes, 3)>>

\* SceneModel::new
SceneModel_new(meshes, base_color) ==
    LET shaded == [m \in 1..Len(meshes) |->
                    [meshes[m] EXCEPT !.vertices =
                        apply_face_shading(meshes[m].vertices, meshes[m].indices,
                                           base_color)]]
    IN  [meshes |-> shaded, base_color |-> base_color, center |-> center_all_axes(shaded)]

\* A change_color that builds the model anew from bare positions.
change_color_Rebuilt(model, new_color) ==
    SceneModel_new(
        [m \in 1..Len(model.meshes) |->
            [vertices |-> [v \in 1..Len(model.meshes[m].vertices) |->
                            [position |-> model.meshes[m].vertices[v].position,
                             normal |-> Vector3Zero, tex_coords |-> <<0, 0>>,
                             color |-> Vector3Zero, new_color |-> Vector3Zero]],
             indices |-> model.meshes[m].indices,
             textures |-> <<>>,
             has_uv_mapping |-> FALSE]],
        new_color)

\* A change_color that first moves every vertex's new_color into its color.
change_color_KeepsPrevious(model, new_color) ==
    [model EXCEPT
        !.base_color = new_color,
        !.meshes = [m \in 1..Len(model.meshes) |->
                        [model.meshes[m] EXCEPT !.vertices =
                            apply_new_color(
                                [v \in 1..Len(model.meshes[m].vertices) |->
                                    [model.meshes[m].vertices[v] EXCEPT
                                        !.color = model.meshes[m].vertices[v].new_color]],
                                model.meshes[m].indices, new_color)]]]

\* SceneModel::change_color
change_color(model, new_color) ==
    [model EXCEPT
        !.base_color = new_color,
        !.meshes = [m \in 1..Len(model.meshes) |->
                        [model.meshes[m] EXCEPT !.vertices =
                            apply_new_color(model.meshes[m].vertices,
                                            model.meshes[m].indices, new_color)]]]

\* Vertex::default() at a position; tangent and bitangent stay zero and are
\* not carried.
DefaultVertex(position) ==
    [position |-> position, normal |-> Vector3Zero, tex_coords |-> <<0, 0>>,
     color |-> Vector3Zero, new_color |-> Vector3Zero]

(***************************************************************************)
(* Text and paths                                                          *)
(*                                                                         *)
(* A line of a file is held as the words str::split_whitespace yields for  *)
(* it, in order; a blank line is the empty sequence.  The words of a line  *)
(* are taken to be separated by single spaces.  Paths are relative and use *)
(* "/" as their separator.                                                 *)
(***************************************************************************)
StartsWith(word, c) == word # <<>> /\ word[1] = c

RECURSIVE JoinWords(_)
JoinWords(words) ==
    IF words = <<>> THEN <<>>
    ELSE IF Len(words) = 1 THEN words[1]
    ELSE words[1] \o <<" ">> \o JoinWords(Tail(words))

\* Position of the last c in s; 0 when s holds no c.
LastIndexOf(s, c) ==
    LET hits == {i \in 1..Len(s) : s[i] = c}
    IN  IF hits = {} THEN 0 ELSE CHOOSE i \in hits : \A j \in hits : j <= i

\* Path::parent
PathParent(path) ==
    LET k == LastIndexOf(path, "/")
    IN  IF k = 0 THEN <<>> ELSE SubSeq(path, 1, k - 1)

\* Path::join
PathJoin(base, relative_path) ==
    IF base = <<>> \/ StartsWith(relative_path, "/") THEN relative_path
    ELSE base \o <<"/">> \o relative_path

\* Path::extension: the text after the last "." of the file name, unless the
\* name has no "." or only a leading one.
PathExtension(path) ==
    LET name == SubSeq(path, LastIndexOf(path, "/") + 1, Len(path))
        dot == LastIndexOf(name, ".")
    IN  IF dot <= 1 THEN None ELSE Some(SubSeq(name, dot + 1, Len(name)))

UpperChars ==
    <<"A", "B", "C", "D", "E", "F", "G", "H", "I", "J", "K", "L", "M",
      "N", "O", "P", "Q", "R", "S", "T", "U", "V", "W", "X", "Y", "Z">>
LowerChars ==
    <<"a", "b", "c", "d", "e", "f", "g", "h", "i", "j", "k", "l", "m",
      "n", "o", "p", "q", "r", "s", "t", "u", "v", "w", "x", "y", "z">>

AsciiLower(c) ==
    IF \E k \in 1..Len(UpperChars) : UpperChars[k] = c
    THEN LowerChars[CHOOSE k \in 1..Len(UpperChars) : UpperChars[k] = c]
    ELSE c

is_bmp_path(path) ==
    LET ext == PathExtension(path)
    IN  /\ IsSome(ext)
        /\ [k \in 1..Len(Unwrap(ext)) |-> AsciiLower(Unwrap(ext)[k])] = <<"b", "m", "p">>

StrV == <<"v">>
StrVn == <<"v", "n">>
StrVt == <<"v", "t">>
StrF == <<"f">>
StrUsemtl == <<"u", "s", "e", "m", "t", "l">>
StrMtllib == <<"m", "t", "l", "l", "i", "b">>
StrNewmtl == <<"n", "e", "w", "m", "t", "l">>
StrMapKd == <<"m", "a", "p", "_", "K", "d">>
StrMapKs == <<"m", "a", "p", "_", "K", "s">>
StrMapBump == <<"m", "a", "p", "_", "B", "u", "m", "p">>
StrBump == <<"b", "u", "m", "p">>

\* An error message: its text without the interpolated values, and the
\* source line it is tagged with (0 when the message names no line).
NoError == [msg |-> "", line |-> 0]
LineError(msg, line_number) == [msg |-> msg, line |-> line_number]

(***************************************************************************)
(* loaders/obj/parse_mtl.rs                                                *)
(***************************************************************************)
\* directive_value: what follows the directive on its line, trimmed.
directive_value(parts, line_number) ==
    LET value == JoinWords(Tail(parts))
    IN  IF value = <<>>
        THEN [ok |-> FALSE, val |-> <<>>,
              err |-> LineError("directive is missing a required value", line_number)]
        ELSE [ok |-> TRUE, val |-> value, err |-> NoError]

\* ObjMaterialData { name, ..Default::default() }
NewMaterial(name) ==
    [name |-> name, diffuse_texture |-> None, specular_texture |-> None,
     normal_texture |-> None]

\* Keeps the first map_Kd of a material.
load_mtl_line_FirstMapWins(parts, line_number, materials, current_material) ==
    LET value == directive_value(parts, line_number)
        failed == [ok |-> FALSE, err |-> value.err, materials |-> materials,
                   current_material |-> current_material]
        goes_on(mats, mat) == [ok |-> TRUE, err |-> NoError, materials |-> mats,
                               current_material |-> mat]
        set(mat) == IF IsSome(current_material) THEN Some(mat) ELSE None
    IN  IF parts = <<>> \/ StartsWith(parts[1], "#")
        THEN goes_on(materials, current_material)
        ELSE IF parts[1] = StrNewmtl
        THEN IF ~value.ok THEN failed
             ELSE goes_on(materials \o current_material, Some(NewMaterial(value.val)))
        ELSE IF parts[1] = StrMapKd
        THEN IF ~value.ok THEN failed
             ELSE goes_on(materials,
                          set([current_material[1] EXCEPT
                                !.diffuse_texture =
                                    IF IsSome(@) THEN @ ELSE Some(value.val)]))
        ELSE IF parts[1] = StrMapKs
        THEN IF ~value.ok THEN failed
             ELSE goes_on(materials,
                          set([current_material[1] EXCEPT
                                !.specular_texture = Some(value.val)]))
        ELSE IF parts[1] \in {StrMapBump, StrBump}
        THEN IF ~value.ok THEN failed
             ELSE goes_on(materials,
                          set([current_material[1] EXCEPT
                                !.normal_texture = Some(value.val)]))
        ELSE goes_on(materials, current_material)

\* The body of the loop over the lines of a material file, for one line:
\* the materials pushed so far and the material being described.
load_mtl_line(parts, line_number, materials, current_material) ==
    LET value == directive_value(parts, line_number)
        failed == [ok |-> FALSE, err |-> value.err, materials |-> materials,
                   current_material |-> current_material]
        goes_on(mats, mat) == [ok |-> TRUE, err |-> NoError, materials |-> mats,
                               current_material |-> mat]
        set(mat) == IF IsSome(current_material) THEN Some(mat) ELSE None
    IN  IF parts = <<>> \/ StartsWith(parts[1], "#")
        THEN goes_on(materials, current_material)
        ELSE IF parts[1] = StrNewmtl
        THEN IF ~value.ok THEN failed
             ELSE goes_on(materials \o current_material, Some(NewMaterial(value.val)))
        ELSE IF parts[1] = StrMapKd
        THEN IF ~value.ok THEN failed
             ELSE goes_on(materials,
                          set([current_material[1] EXCEPT
                                !.diffuse_texture = Some(value.val)]))
        ELSE IF parts[1] = StrMapKs
        THEN IF ~value.ok THEN failed
             ELSE goes_on(materials,
                          set([current_material[1] EXCEPT
                                !.specular_texture = Some(value.val)]))
        ELSE IF parts[1] \in {StrMapBump, StrBump}
        THEN IF ~value.ok THEN failed
             ELSE goes_on(materials,
                          set([current_material[1] EXCEPT
                                !.normal_texture = Some(value.val)]))
        ELSE goes_on(materials, current_material)

RECURSIVE LoadMtlLines(_, _, _, _)
LoadMtlLines(lines, line_number, materials, current_material) ==
    IF lines = <<>>
    THEN [ok |-> TRUE, err |-> NoError, materials |-> materials \o current_material]
    ELSE LET step == load_mtl_line(Head(lines), line_number, materials,
                                   current_material)
         IN  IF ~step.ok THEN [ok |-> FALSE, err |-> step.err, materials |-> <<>>]
             ELSE LoadMtlLines(Tail(lines), line_number + 1, step.materials,
                               step.current_material)

\* files: the material files that exist, by path, each as its lines.
load_mtl(path, files) ==
    IF path \notin DOMAIN files
    THEN [ok |-> FALSE, err |-> LineError("Failed to open MTL file", 0),
          materials |-> <<>>]
    ELSE LoadMtlLines(files[path], 1, <<>>, None)

(***************************************************************************)
(* loaders/obj/parse_obj.rs                                                *)
(*                                                                         *)
(* Numeric components are integer literals; the other spellings f32        *)
(* accepts (fractions, exponents, inf, nan) are not offered.               *)
(***************************************************************************)
parse_f32_component(raw) == ParseIsize(raw)

\* return Err(...) out of load
Fail(st, msg, line_number) ==
    [st EXCEPT !.pc = "error", !.err = LineError(msg, line_number)]

\* The "v" arm.
read_v(st, parts) ==
    IF Len(parts) < 4
    THEN Fail(st, "vertex position requires 3 components", st.line_number)
    ELSE
    LET x == parse_f32_component(parts[2])
        y == parse_f32_component(parts[3])
        z == parse_f32_component(parts[4])
    IN  IF ~x.ok THEN Fail(st, "invalid vertex x", st.line_number)
        ELSE IF ~y.ok THEN Fail(st, "invalid vertex y", st.line_number)
        ELSE IF ~z.ok THEN Fail(st, "invalid vertex z", st.line_number)
        ELSE [st EXCEPT !.positions = Append(@, <<x.val, y.val, z.val>>)]

\* The "vn" arm.
read_vn(st, parts) ==
    IF Len(parts) < 4
    THEN Fail(st, "vertex normal requires 3 components", st.line_number)
    ELSE
    LET x == parse_f32_component(parts[2])
        y == parse_f32_component(parts[3])
        z == parse_f32_component(parts[4])
    IN  IF ~x.ok THEN Fail(st, "invalid normal x", st.line_number)
        ELSE IF ~y.ok THEN Fail(st, "invalid normal y", st.line_number)
        ELSE IF ~z.ok THEN Fail(st, "invalid normal z", st.line_number)
        ELSE [st EXCEPT !.normals = Append(@, <<x.val, y.val, z.val>>)]

\* The "vt" arm.
read_vt(st, parts) ==
    IF Len(parts) < 3
    THEN Fail(st, "texture coordinate requires at least 2 components", st.line_number)
    ELSE
    LET u == parse_f32_component(parts[2])
        v == parse_f32_component(parts[3])
    IN  IF ~u.ok THEN Fail(st, "invalid texcoord u", st.line_number)
        ELSE IF ~v.ok THEN Fail(st, "invalid texcoord v", st.line_number)
        ELSE [st EXCEPT !.texcoords = Append(@, <<u.val, v.val>>)]

\* The loop over the items of an "f" line: stops at a word that starts a
\* comment, fails at the first token that does not parse.
RECURSIVE ParseFaceItems(_, _, _)
ParseFaceItems(items, face, st) ==
    IF items = <<>> \/ StartsWith(Head(items), "#")
    THEN [ok |-> TRUE, err |-> "", face |-> face]
    ELSE LET parsed == parse_face_vertex(Head(items), Len(st.positions),
                                         Len(st.texcoords), Len(st.normals))
         IN  IF ~parsed.ok THEN [ok |-> FALSE, err |-> parsed.err, face |-> <<>>]
             ELSE ParseFaceItems(Tail(items),
                                 Append(face, [p |-> parsed.p, t |-> parsed.t,
                                               n |-> parsed.n]),
                                 st)

\* material_faces.entry(key).or_default(), then one push per face.
PushFaces_NoMaterial(material_faces, key, faces) ==
    IF None \in DOMAIN material_faces
    THEN [material_faces EXCEPT ![None] = @ \o faces]
    ELSE [k \in DOMAIN material_faces \cup {None} |->
            IF k = None THEN faces ELSE material_faces[k]]

PushFaces(material_faces, key, faces) ==
    IF key \in DOMAIN material_faces
    THEN [material_faces EXCEPT ![key] = @ \o faces]
    ELSE [k \in DOMAIN material_faces \cup {key} |->
            IF k = key THEN faces ELSE material_faces[k]]

\* for i in 1..face.len() - 1: [face[0], face[i], face[i + 1]]
FanTriangles(face) ==
    [i \in 1..(Len(face) - 2) |-> <<face[1], face[i + 1], face[i + 2]>>]

\* The "f" arm.
read_f(st, parts) ==
    IF Len(parts) < 4
    THEN Fail(st, "face requires at least 3 vertices", st.line_number)
    ELSE
    LET parsed == ParseFaceItems(Tail(parts), <<>>, st)
        face == parsed.face
    IN  IF ~parsed.ok THEN Fail(st, parsed.err, st.line_number)
        ELSE IF st.options.triangulate /\ Len(face) > 3
        THEN [st EXCEPT !.material_faces =
                PushFaces(@, st.current_material, FanTriangles(face))]
        ELSE IF ~st.options.triangulate /\ Len(face) # 3
        THEN Fail(st, "non-triangular face requires triangulate=true", st.line_number)
        ELSE [st EXCEPT !.material_faces = PushFaces(@, st.current_material, <<face>>)]

RECURSIVE TakeUntilComment(_)
TakeUntilComment(items) ==
    IF items = <<>> \/ StartsWith(Head(items), "#") THEN <<>>
    ELSE <<Head(items)>> \o TakeUntilComment(Tail(items))

collect_directive_values(parts, directive, line_number) ==
    IF parts = <<>> \/ parts[1] # directive
    THEN [ok |-> FALSE, values |-> <<>>,
          err |-> LineError("expected directive", line_number)]
    ELSE LET values == TakeUntilComment(Tail(parts))
         IN  IF values = <<>>
             THEN [ok |-> FALSE, values |-> <<>>,
                   err |-> LineError("directive is missing a required value",
                                     line_number)]
             ELSE [ok |-> TRUE, values |-> values, err |-> NoError]

\* The "usemtl" arm.
read_usemtl(st, parts) ==
    LET collected == collect_directive_values(parts, StrUsemtl, st.line_number)
    IN  IF ~collected.ok THEN [st EXCEPT !.pc = "error", !.err = collected.err]
        ELSE [st EXCEPT !.current_material = Some(collected.values[1])]

\* The "mtllib" arm.
read_mtllib(st, parts) ==
    LET collected == collect_directive_values(parts, StrMtllib, st.line_number)
    IN  IF ~collected.ok THEN [st EXCEPT !.pc = "error", !.err = collected.err]
        ELSE [st EXCEPT !.mtl_files = @ \o collected.values]

\* The body of the loop over the lines of the file, for one line.  st.line
\* keeps the line for reference; the code drops it.
load_line(st, parts) ==
    LET at == [st EXCEPT !.line_number = @ + 1, !.line = parts]
    IN  IF parts = <<>> \/ StartsWith(parts[1], "#") THEN at
        ELSE IF parts[1] = StrV THEN read_v(at, parts)
        ELSE IF parts[1] = StrVn THEN read_vn(at, parts)
        ELSE IF parts[1] = StrVt THEN read_vt(at, parts)
        ELSE IF parts[1] = StrF THEN read_f(at, parts)
        ELSE IF parts[1] = StrUsemtl THEN read_usemtl(at, parts)
        ELSE IF parts[1] = StrMtllib THEN read_mtllib(at, parts)
        ELSE at

\* Keeps the first record of each name.
RECURSIVE LoadMaterials_DedupByName(_, _, _, _)
LoadMaterials_DedupByName(mtl_files, dir, files, materials) ==
    IF mtl_files = <<>> THEN [ok |-> TRUE, err |-> NoError, materials |-> materials]
    ELSE LET loaded == load_mtl(PathJoin(dir, Head(mtl_files)), files)
             fresh == SelectSeq(loaded.materials,
                                LAMBDA mat : \A k \in 1..Len(materials) :
                                                materials[k].name # mat.name)
         IN  IF ~loaded.ok THEN loaded
             ELSE LoadMaterials_DedupByName(Tail(mtl_files), dir, files,
                                            materials \o fresh)

RECURSIVE LoadMaterials(_, _, _, _)
LoadMaterials(mtl_files, dir, files, materials) ==
    IF mtl_files = <<>> THEN [ok |-> TRUE, err |-> NoError, materials |-> materials]
    ELSE LET loaded == load_mtl(PathJoin(dir, Head(mtl_files)), files)
         IN  IF ~loaded.ok THEN loaded
             ELSE LoadMaterials(Tail(mtl_files), dir, files,
                                materials \o loaded.materials)

\* Keeps the first material of each name.
material_map_FirstWins(materials) ==
    [name \in {materials[i].name : i \in 1..Len(materials)} |->
        (CHOOSE i \in 1..Len(materials) :
            /\ materials[i].name = name
            /\ \A j \in 1..Len(materials) : materials[j].name = name => j >= i) - 1]

\* material_map: collected from (name, index) pairs in order, so a later
\* material of the same name replaces an earlier one.  Indices are 0-based.
material_map(materials) ==
    [name \in {materials[i].name : i \in 1..Len(materials)} |->
        (CHOOSE i \in 1..Len(materials) :
            /\ materials[i].name = name
            /\ \A j \in 1..Len(materials) : materials[j].name = name => j <= i) - 1]

material_id_of_OneBased(mat_name, materials) ==
    IF IsSome(mat_name) /\ Unwrap(mat_name) \in DOMAIN material_map(materials)
    THEN Some(material_map(materials)[Unwrap(mat_name)] + 1)
    ELSE None

material_id_of(mat_name, materials) ==
    IF IsSome(mat_name) /\ Unwrap(mat_name) \in DOMAIN material_map(materials)
    THEN Some(material_map(materials)[Unwrap(mat_name)])
    ELSE None

\* extend_from_slice of every element of a sequence of n-tuples.
Flatten(tuples, n) ==
    [k \in 1..(n * Len(tuples)) |-> tuples[((k - 1) \div n) + 1][((k - 1) % n) + 1]]

publish_texcoords_Partial(vertex_texcoords) ==
    Flatten([k \in 1..Len(vertex_texcoords) |->
                IF IsSome(vertex_texcoords[k]) THEN Unwrap(vertex_texcoords[k])
                ELSE <<0, 0>>],
            2)

\* if vertex_texcoords.iter().all(|uv| uv.is_some()) { ... }
publish_texcoords(vertex_texcoords) ==
    IF \A k \in 1..Len(vertex_texcoords) : IsSome(vertex_texcoords[k])
    THEN Flatten([k \in 1..Len(vertex_texcoords) |-> Unwrap(vertex_texcoords[k])], 2)
    ELSE <<>>

\* An assembly that writes the OBJ position index of a corner as its index.
assemble_mesh_PositionIndex(mat_faces, material_id, positions, normals, texcoords) ==
    LET corners == Flatten(mat_faces, 3)
        vertex_texcoords ==
            [k \in 1..Len(corners) |->
                IF IsSome(corners[k].t)
                THEN Some(texcoords[Unwrap(corners[k].t) + 1]) ELSE None]
    IN  [positions |-> Flatten([k \in 1..Len(corners) |-> positions[corners[k].p + 1]], 3),
         normals |-> Flatten([k \in 1..Len(corners) |->
                                IF IsSome(corners[k].n)
                                THEN normals[Unwrap(corners[k].n) + 1]
                                ELSE <<0, 0, 0>>], 3),
         texcoords |-> publish_texcoords(vertex_texcoords),
         indices |-> [k \in 1..Len(corners) |-> corners[k].p],
         material_id |-> material_id]

\* The mesh of one bucket whose faces all have three corners.
assemble_mesh(mat_faces, material_id, positions, normals, texcoords) ==
    LET corners == Flatten(mat_faces, 3)
        vertex_texcoords ==
            [k \in 1..Len(corners) |->
                IF IsSome(corners[k].t)
                THEN Some(texcoords[Unwrap(corners[k].t) + 1]) ELSE None]
    IN  [positions |-> Flatten([k \in 1..Len(corners) |-> positions[corners[k].p + 1]], 3),
         normals |-> Flatten([k \in 1..Len(corners) |->
                                IF IsSome(corners[k].n)
                                THEN normals[Unwrap(corners[k].n) + 1]
                                ELSE <<0, 0, 0>>], 3),
         texcoords |-> publish_texcoords(vertex_texcoords),
         indices |-> [k \in 1..Len(corners) |-> k - 1],
         material_id |-> material_id]

\* load after its last line: the material files, then one mesh per bucket.
\* order is the order in which the HashMap yields its keys.
finish_load(st, order, files) ==
    LET loaded == LoadMaterials(st.mtl_files, PathParent(st.path), files, <<>>)
    IN  IF ~loaded.ok THEN [st EXCEPT !.pc = "error", !.err = loaded.err]
        ELSE IF \E key \in DOMAIN st.material_faces :
                    \E f \in 1..Len(st.material_faces[key]) :
                        Len(st.material_faces[key][f]) # 3
        THEN Fail(st, "Internal OBJ loader error: non-triangulated face reached mesh assembly", 0)
        ELSE [st EXCEPT
                !.pc = "loaded",
                !.order = order,
                !.materials = loaded.materials,
                !.objects =
                    [i \in 1..Len(order) |->
                        [mesh |-> assemble_mesh(st.material_faces[order[i]],
                                                material_id_of(order[i], loaded.materials),
                                                st.positions, st.normals, st.texcoords)]]]

(***************************************************************************)
(* scene/model_builder.rs                                                  *)
(*                                                                         *)
(* A texture coordinate is a fraction <<numerator, denominator>>.          *)
(***************************************************************************)
\* Vector3::new(0.6, 0.6, 0.6)
BuilderBaseColor == <<660, 660, 660>>

SetMin(values) == CHOOSE lo \in values : \A o \in values : lo <= o
SetMax(values) == CHOOSE hi \in values : \A o \in values : hi >= o

resolve_material_path_NoDir(base_dir, relative_path) == relative_path

\* Path::to_str never fails on the paths of the model.
resolve_material_path(base_dir, relative_path) == PathJoin(base_dir, relative_path)

resolve_optional_bmp_material_path(base_dir, relative_path) ==
    IF is_bmp_path(relative_path)
    THEN Some(resolve_material_path(base_dir, relative_path))
    ELSE None

resolve_diffuse_texture_path_MaterialOnly(model_dir, fallback_texture_path, material) ==
    IF /\ IsSome(material)
       /\ IsSome(Unwrap(material).diffuse_texture)
       /\ is_bmp_path(Unwrap(Unwrap(material).diffuse_texture))
    THEN [ok |-> TRUE, err |-> NoError,
          path |-> resolve_material_path(model_dir,
                                         Unwrap(Unwrap(material).diffuse_texture))]
    ELSE [ok |-> FALSE, path |-> <<>>,
          err |-> LineError("No diffuse texture available", 0)]

resolve_diffuse_texture_path_MaterialFirst(model_dir, fallback_texture_path, material) ==
    IF /\ IsSome(material)
       /\ IsSome(Unwrap(material).diffuse_texture)
       /\ Unwrap(Unwrap(material).diffuse_texture) # <<>>
    THEN LET diffuse_texture == Unwrap(Unwrap(material).diffuse_texture)
         IN  IF ~is_bmp_path(diffuse_texture)
             THEN [ok |-> FALSE, path |-> <<>>,
                   err |-> LineError("Material diffuse texture must be a .bmp file when no CLI fallback texture is provided", 0)]
             ELSE [ok |-> TRUE, err |-> NoError,
                   path |-> resolve_material_path(model_dir, diffuse_texture)]
    ELSE IF fallback_texture_path # <<>>
    THEN [ok |-> TRUE, err |-> NoError, path |-> fallback_texture_path]
    ELSE [ok |-> FALSE, path |-> <<>>,
          err |-> LineError("No diffuse texture available", 0)]

\* material: None, or Some of a material record.
resolve_diffuse_texture_path(model_dir, fallback_texture_path, material) ==
    IF fallback_texture_path # <<>>
    THEN [ok |-> TRUE, err |-> NoError, path |-> fallback_texture_path]
    ELSE IF /\ IsSome(material)
            /\ IsSome(Unwrap(material).diffuse_texture)
            /\ Unwrap(Unwrap(material).diffuse_texture) # <<>>
    THEN LET diffuse_texture == Unwrap(Unwrap(material).diffuse_texture)
         IN  IF ~is_bmp_path(diffuse_texture)
             THEN [ok |-> FALSE, path |-> <<>>,
                   err |-> LineError("Material diffuse texture must be a .bmp file when no CLI fallback texture is provided", 0)]
             ELSE [ok |-> TRUE, err |-> NoError,
                   path |-> resolve_material_path(model_dir, diffuse_texture)]
    ELSE [ok |-> FALSE, path |-> <<>>,
          err |-> LineError("No diffuse texture available", 0)]

\* The specular or normal texture of a material, when it names a BMP file.
OptionalTexture(model_dir, texture, kind) ==
    IF IsSome(texture) /\ Unwrap(texture) # <<>>
       /\ IsSome(resolve_optional_bmp_material_path(model_dir, Unwrap(texture)))
    THEN <<[path |-> Unwrap(resolve_optional_bmp_material_path(model_dir, Unwrap(texture))),
            kind |-> kind]>>
    ELSE <<>>

\* The vertices of one mesh: positions, normals, and either the published
\* texture coordinates or the planar projection onto the bounding box in x, y.
BuildVertices(mesh, has_uv_mapping) ==
    LET p == mesh.positions
        n == mesh.normals
        t == mesh.texcoords
        num_vertices == Len(p) \div 3
        xs == {p[3 * i + 1] : i \in 0..(num_vertices - 1)}
        ys == {p[3 * i + 2] : i \in 0..(num_vertices - 1)}
        planar(value, values) ==
            IF SetMax(values) # SetMin(values)
            THEN <<value - SetMin(values), SetMax(values) - SetMin(values)>>
            ELSE <<1, 2>>
    IN  [i \in 1..num_vertices |->
            [DefaultVertex(<<p[3 * i - 2], p[3 * i - 1], p[3 * i]>>) EXCEPT
                !.normal = IF n # <<>> THEN <<n[3 * i - 2], n[3 * i - 1], n[3 * i]>>
                           ELSE @,
                !.tex_coords =
                    IF has_uv_mapping
                    THEN << <<t[2 * i - 1], 1>>, <<t[2 * i], 1>> >>
                    ELSE <<planar(p[3 * i - 2], xs), planar(p[3 * i - 1], ys)>>]]

\* The body of the loop over obj_scene.objects, for one object.
build_mesh(mesh, materials, model_dir, fallback_texture_path) ==
    LET failed(msg) == [ok |-> FALSE, err |-> LineError(msg, 0), mesh |-> <<>>]
        num_vertices == Len(mesh.positions) \div 3
        has_uv_mapping == mesh.texcoords # <<>>
    IN  IF Len(mesh.positions) % 3 # 0
        THEN failed("Malformed OBJ mesh: positions array length is not a multiple of 3")
        ELSE IF mesh.normals # <<>> /\ Len(mesh.normals) # Len(mesh.positions)
        THEN failed("Malformed OBJ mesh: normals array length must match positions length")
        ELSE IF mesh.texcoords # <<>> /\ Len(mesh.texcoords) # num_vertices * 2
        THEN failed("Malformed OBJ mesh: texcoords array length must be vertex_count * 2")
        ELSE IF IsSome(mesh.material_id) /\ Unwrap(mesh.material_id) >= Len(materials)
        THEN failed("OBJ mesh references unknown material id")
        ELSE
        LET material == IF IsSome(mesh.material_id)
                        THEN Some(materials[Unwrap(mesh.material_id) + 1]) ELSE None
            diffuse == resolve_diffuse_texture_path(model_dir, fallback_texture_path,
                                                    material)
        IN  IF ~diffuse.ok THEN [ok |-> FALSE, err |-> diffuse.err, mesh |-> <<>>]
            ELSE [ok |-> TRUE, err |-> NoError,
                  mesh |->
                    [vertices |-> BuildVertices(mesh, has_uv_mapping),
                     indices |-> mesh.indices,
                     textures |->
                        <<[path |-> diffuse.path, kind |-> "Diffuse"]>>
                        \o (IF IsSome(material)
                            THEN OptionalTexture(model_dir,
                                                 Unwrap(material).specular_texture,
                                                 "Specular")
                            ELSE <<>>)
                        \o (IF IsSome(material)
                            THEN OptionalTexture(model_dir,
                                                 Unwrap(material).normal_texture,
                                                 "Normal")
                            ELSE <<>>),
                     has_uv_mapping |-> has_uv_mapping]]

RECURSIVE BuildMeshes(_, _, _, _, _)
BuildMeshes(objects, materials, model_dir, fallback_texture_path, meshes) ==
    IF objects = <<>> THEN [ok |-> TRUE, err |-> NoError, meshes |-> meshes]
    ELSE LET built == build_mesh(Head(objects).mesh, materials, model_dir,
                                 fallback_texture_path)
         IN  IF ~built.ok THEN [ok |-> FALSE, err |-> built.err, meshes |-> <<>>]
             ELSE BuildMeshes(Tail(objects), materials, model_dir,
                              fallback_texture_path, Append(meshes, built.mesh))

\* build_scene_model once load has returned Ok: st holds the loaded scene.
build_scene_model(st, fallback_texture_path) ==
    LET built == BuildMeshes(st.objects, st.materials, PathParent(st.path),
                             fallback_texture_path, <<>>)
    IN  IF ~built.ok THEN [ok |-> FALSE, err |-> built.err, model |-> <<>>]
        ELSE [ok |-> TRUE, err |-> NoError,
              model |-> SceneModel_new(built.meshes, BuilderBaseColor)]

(***************************************************************************)
(* Face tokens offered to the parser                                       *)
(***************************************************************************)
MaxCount == 2

FieldStrs ==
    { <<>>, <<"0">>, <<"1">>, <<"2">>, <<"3">>, <<"-", "1">>, <<"-", "2">>,
      <<"-", "3">>, <<"-">>, <<"+", "1">>, <<"x">>, <<"0", "2">> }

RECURSIVE Join(_, _)
Join(fields, sep) ==
    IF Len(fields) = 1 THEN fields[1]
    ELSE fields[1] \o <<sep>> \o Join(Tail(fields), sep)

\* Tokens come from split_whitespace, so none is empty.  Tokens of one to three
\* fields, and two of four fields, which the grammar rejects.
TokenSet ==
    ({Join(fs, "/") : fs \in SeqsUpTo(FieldStrs, 1, 3)} \ {<<>>})
        \cup {Join(<<<<"1">>, <<"1">>, <<"1">>, <<"1">>>>, "/"),
              Join(<<<<"1">>, <<>>, <<>>, <<>>>>, "/")}

(***************************************************************************)
(* Faces offered to the triangulator: corner lists over a pool of points   *)
(***************************************************************************)
MaxCorners == 5

\* The corners, three side midpoints and the centre of a 2x2 square in the
\* plane z = 0, and one point above a corner.
TriPositions ==
    << <<0, 0, 0>>, <<2, 0, 0>>, <<2, 2, 0>>, <<0, 2, 0>>,
       <<1, 0, 0>>, <<2, 1, 0>>, <<1, 2, 0>>,
       <<1, 1, 0>>, <<2, 2, 1>> >>

PlainCorner(p) == [p |-> p, t |-> None, n |-> None]

TriFaces ==
    {[k \in 1..Len(s) |-> PlainCorner(s[k])] :
        s \in SeqsUpTo(0..(Len(TriPositions) - 1), 3, MaxCorners)}

(***************************************************************************)
(* Meshes and colours offered to SceneModel::new and change_color          *)
(***************************************************************************)
MaxTriangles == 12

\* 0.6 grey (the builder's base colour), and colours with channels 0, 0.3,
\* 1.0 and 1.1 (the renderer draws channels from 0.0 to 1.1).
ShadeColors ==
    { <<660, 660, 660>>, <<1100, 0, 1210>>, <<0, 1210, 330>>, <<1210, 1100, 1100>> }

\* k triangles that share no vertex: indices 0, 1, 2, ...
UnsharedIndices(k) == [i \in 1..(3 * k) |-> i - 1]

\* k triangles of a fan around vertex 0: (0, t+1, t+2) for t = 0..k-1.
FanIndices(k) ==
    [i \in 1..(3 * k) |->
        IF (i - 1) % 3 = 0 THEN 0 ELSE ((i - 1) \div 3) + ((i - 1) % 3)]

MeshOf(indices, nvertices) ==
    [vertices |-> [v \in 1..nvertices |-> DefaultVertex(<<v - 1, v % 3, 0>>)],
     indices |-> indices,
     textures |-> <<>>,
     has_uv_mapping |-> FALSE]

\* Two triangles of a textured square with normals and texture coordinates,
\* as build_scene_model makes them.
TexturedMesh ==
    [vertices |-> [v \in 1..4 |->
                    [DefaultVertex(TriPositions[v]) EXCEPT
                        !.normal = <<0, 0, 1>>,
                        !.tex_coords = << <<TriPositions[v][1] \div 2, 1>>,
                                         <<TriPositions[v][2] \div 2, 1>> >>]],
     indices |-> <<0, 1, 2, 0, 2, 3>>,
     textures |-> <<[path |-> <<"t", ".", "b", "m", "p">>, kind |-> "Diffuse"]>>,
     has_uv_mapping |-> TRUE]

ShadeMeshes ==
    {MeshOf(UnsharedIndices(k), 3 * k) : k \in 1..MaxTriangles}
        \cup {MeshOf(FanIndices(k), k + 2) : k \in 1..MaxTriangles}
        \cup {TexturedMesh}

(***************************************************************************)
(* Specifications                                                          *)
(***************************************************************************)
TokIdle == [token |-> <<"1">>, plen |-> 0, tlen |-> 0, nlen |-> 0,
            done |-> FALSE, res |-> FaceVertexErr("")]

TriIdle == [face |-> <<>>, done |-> FALSE, out |-> FallbackFan]

\* scene.state: "none" (no model), "args" (the arguments of SceneModel::new),
\* "new" (constructed), "recolored" (change_color has run).
SceneIdle == [state |-> "none", meshes |-> <<>>, base_color |-> Vector3Zero,
              center |-> Vector3Zero]

\* No load call is in progress.
LoadIdle == [pc |-> "idle"]
BmpIdle == [done |-> FALSE, build |-> "debug", file |-> <<>>, res |-> <<>>]
ImgIdle == [image |-> <<>>, got |-> <<>>]
MtlIdle == [lines |-> <<>>, done |-> FALSE, res |-> <<>>]

InitTok ==
    /\ tok \in {[token |-> t, plen |-> a, tlen |-> b, nlen |-> c,
                 done |-> FALSE, res |-> FaceVertexErr("")] :
                    t \in TokenSet, a \in 0..MaxCount, b \in 0..MaxCount, c \in 0..MaxCount}
    /\ tri = TriIdle
    /\ scene = SceneIdle
    /\ ld = LoadIdle
    /\ bmp = BmpIdle
    /\ img = ImgIdle
    /\ mtl = MtlIdle

ParseFaceVertex ==
    /\ ~tok.done
    /\ tok' = [tok EXCEPT !.done = TRUE,
                          !.res = parse_face_vertex(tok.token, tok.plen, tok.tlen, tok.nlen)]
    /\ UNCHANGED <<tri, scene, ld, bmp, img, mtl>>

NextTok == ParseFaceVertex

SpecTok == InitTok /\ [][NextTok]_vars

InitTri ==
    /\ tri \in {[face |-> f, done |-> FALSE, out |-> FallbackFan] : f \in TriFaces}
    /\ tok = TokIdle
    /\ scene = SceneIdle
    /\ ld = LoadIdle
    /\ bmp = BmpIdle
    /\ img = ImgIdle
    /\ mtl = MtlIdle

TriangulateFace ==
    /\ ~tri.done
    /\ tri.face # <<>>
    /\ tri' = [tri EXCEPT !.done = TRUE,
                          !.out = triangulate_face(tri.face, TriPositions)]
    /\ UNCHANGED <<tok, scene, ld, bmp, img, mtl>>

NextTri == TriangulateFace

SpecTri == InitTri /\ [][NextTri]_vars


\* The points (places in TriPositions) the caller draws the corners from: the corners of the square,
\* the midpoint of its first side and its centre.
ClipPoints == {0, 1, 2, 3, 4, 7}

\* triangulate_face run pass by pass on a face its caller has collected corner
\* by corner.  tri.pc: "face" (the caller collects the corners), "clip" (in
\* the loop of ear_clip), "done" (returned); tri.cleaned, tri.points and
\* tri.ccw are the locals cleaned_original_indices, projected and
\* signed_area > 0.0; tri.passes counts the passes of the loop that have run.
InitClip ==
    /\ tri = [face |-> <<>>, done |-> FALSE, out |-> FallbackFan, pc |-> "face",
              cleaned |-> <<>>, points |-> <<>>, ccw |-> FALSE,
              remaining |-> <<>>, triangles |-> <<>>, passes |-> 0]
    /\ tok = TokIdle
    /\ scene = SceneIdle
    /\ ld = LoadIdle
    /\ bmp = BmpIdle
    /\ img = ImgIdle
    /\ mtl = MtlIdle

\* The caller pushes one more corner onto the face.
PushCorner ==
    /\ tri.pc = "face"
    /\ Len(tri.face) < MaxCorners
    /\ \E p \in ClipPoints :
            tri' = [tri EXCEPT !.face = Append(@, PlainCorner(p))]
    /\ UNCHANGED <<tok, scene, ld, bmp, img, mtl>>

\* The call on a face of 3 or more corners: the checks before ear_clip, and
\* ear_clip's first two statements.
ClipStart ==
    /\ tri.pc = "face"
    /\ Len(tri.face) >= 3
    /\ LET input == clip_input(tri.face, TriPositions)
       IN  IF ~IsSome(input)
           THEN tri' = [tri EXCEPT !.pc = "done", !.done = TRUE, !.out = FallbackFan]
           ELSE tri' = [tri EXCEPT
                            !.pc = "clip",
                            !.cleaned = Unwrap(input).cleaned,
                            !.points = Unwrap(input).points,
                            !.ccw = Unwrap(input).ccw,
                            !.remaining = [i \in 1..Len(Unwrap(input).points) |-> i - 1]]
    /\ UNCHANGED <<tok, scene, ld, bmp, img, mtl>>

\* One pass of the loop: while remaining.len() > 3.
ClipPass ==
    /\ tri.pc = "clip"
    /\ Len(tri.remaining) > 3
    /\ LET pass == clip_pass(tri.points, tri.ccw, tri.remaining, tri.triangles)
       IN  IF ~pass.ear_found
           THEN tri' = [tri EXCEPT !.pc = "done", !.done = TRUE, !.out = FallbackFan,
                                   !.passes = @ + 1]
           ELSE tri' = [tri EXCEPT !.remaining = pass.remaining,
                                   !.triangles = pass.triangles,
                                   !.passes = @ + 1]
    /\ UNCHANGED <<tok, scene, ld, bmp, img, mtl>>

\* The loop has ended: the last triangle, and the return of triangulate_face.
ClipFinish ==
    /\ tri.pc = "clip"
    /\ Len(tri.remaining) <= 3
    /\ tri' = [tri EXCEPT
                !.pc = "done", !.done = TRUE,
                !.out = clip_result(tri.cleaned, tri.remaining, tri.triangles)]
    /\ UNCHANGED <<tok, scene, ld, bmp, img, mtl>>

NextClip == PushCorner \/ ClipStart \/ ClipPass \/ ClipFinish

SpecClip == InitClip /\ [][NextClip]_vars

\* ear_clip runs on one thread: a pass of its loop that can run does run, and
\* so does the return once the loop has ended.
FairSpecClip == SpecClip /\ WF_vars(ClipPass) /\ WF_vars(ClipFinish)

InitShade ==
    /\ scene \in {[state |-> "args", meshes |-> ms, base_color |-> c, center |-> Vector3Zero] :
                    ms \in SeqsUpTo(ShadeMeshes, 1, 2), c \in ShadeColors}
    /\ tok = TokIdle
    /\ tri = TriIdle
    /\ ld = LoadIdle
    /\ bmp = BmpIdle
    /\ img = ImgIdle
    /\ mtl = MtlIdle

\* SceneModel::new on the chosen meshes and base colour.
SceneModelNew ==
    /\ scene.state = "args"
    /\ scene' = [state |-> "new"] @@ SceneModel_new(scene.meshes, scene.base_color)
    /\ UNCHANGED <<tok, tri, ld, bmp, img, mtl>>

ChangeColor ==
    /\ scene.state \in {"new", "recolored"}
    /\ \E c \in ShadeColors :
        scene' = [state |-> "recolored"]
                    @@ change_color([meshes |-> scene.meshes,
                                     base_color |-> scene.base_color,
                                     center |-> scene.center], c)
    /\ UNCHANGED <<tok, tri, ld, bmp, img, mtl>>

NextShade == SceneModelNew \/ ChangeColor

SpecShade == InitShade /\ [][NextShade]_vars

(***************************************************************************)
(* The OBJ text of an index, written independently of the parser           *)
(***************************************************************************)
IntToStr(v) ==
    IF v < 0 THEN <<"-", DigitChars[(0 - v) + 1]>> ELSE <<DigitChars[v + 1]>>

\* The four token forms p, p/t, p//n and p/t/n; t and n are options.
FormatFaceToken(p, t, n) ==
    IF ~IsSome(t) /\ ~IsSome(n) THEN IntToStr(p)
    ELSE IF ~IsSome(n) THEN IntToStr(p) \o <<"/">> \o IntToStr(Unwrap(t))
    ELSE IF ~IsSome(t) THEN IntToStr(p) \o <<"/", "/">> \o IntToStr(Unwrap(n))
    ELSE IntToStr(p) \o <<"/">> \o IntToStr(Unwrap(t)) \o <<"/">> \o IntToStr(Unwrap(n))

IndexLits == -4..4
OptIndexLits == {None} \cup {Some(v) : v \in IndexLits}

FormattedTokens ==
    {[token |-> FormatFaceToken(p, t, n), p |-> p, t |-> t, n |-> n] :
        p \in IndexLits, t \in OptIndexLits, n \in OptIndexLits}

IndexInRange(v, count) == (1 <= v /\ v <= count) \/ (0 - count <= v /\ v <= -1)
OptInRange(o, count) == IsSome(o) => IndexInRange(Unwrap(o), count)
ExpectedIndex(v, count) == IF v >= 1 THEN v - 1 ELSE count + v
ExpectedOpt(o, count) == IF IsSome(o) THEN Some(ExpectedIndex(Unwrap(o), count)) ELSE None

\* C1: a face token p, p/t, p//n or p/t/n whose fields are all in range
\* (1..count or -count..-1) parses, each positive field v resolving to v-1,
\* each negative field to count+v, and an absent t or n field to none.
C1_IndexResolution ==
    tok.done =>
        \A f \in FormattedTokens :
            (/\ f.token = tok.token
             /\ IndexInRange(f.p, tok.plen)
             /\ OptInRange(f.t, tok.tlen)
             /\ OptInRange(f.n, tok.nlen))
            => /\ tok.res.ok
               /\ tok.res.p = ExpectedIndex(f.p, tok.plen)
               /\ tok.res.t = ExpectedOpt(f.t, tok.tlen)
               /\ tok.res.n = ExpectedOpt(f.n, tok.nlen)

\* The token -1/2/-2 parsed with two entries of each kind.
C1_Witness ==
    /\ tok.done
    /\ tok.token = FormatFaceToken(-1, Some(2), Some(-2))
    /\ tok.plen = 2 /\ tok.tlen = 2 /\ tok.nlen = 2
    /\ tok.res.ok /\ tok.res.p = 1 /\ tok.res.t = Some(1) /\ tok.res.n = Some(0)

(***************************************************************************)
(* Geometry of a face, written independently of the triangulator          *)
(***************************************************************************)
Sub3(a, b) == <<a[1] - b[1], a[2] - b[2], a[3] - b[3]>>
Cross3(a, b) ==
    <<a[2] * b[3] - a[3] * b[2], a[3] * b[1] - a[1] * b[3], a[1] * b[2] - a[2] * b[1]>>
Dot3(a, b) == a[1] * b[1] + a[2] * b[2] + a[3] * b[3]

FacePoints(face, positions) == [k \in 1..Len(face) |-> positions[face[k].p + 1]]

DistinctCorners(pts) == \A i, j \in 1..Len(pts) : i # j => pts[i] # pts[j]

\* Cross product of edge i (from corner i to the next one) with the vector
\* from corner i to corner k.
EdgeCross(pts, i, k) ==
    Cross3(Sub3(pts[(i % Len(pts)) + 1], pts[i]), Sub3(pts[k], pts[i]))

\* All corners lie in one plane and on one side of (or on) every edge's line,
\* and the polygon is not flat.
PlanarConvex(pts) ==
    LET crosses == {EdgeCross(pts, i, k) : i, k \in 1..Len(pts)}
    IN  /\ \E c \in crosses : c # <<0, 0, 0>>
        /\ \A c, d \in crosses : Cross3(c, d) = <<0, 0, 0>> /\ Dot3(c, d) >= 0

\* The polygon as the triangulator sees it: the code's projection of the corners.
ProjectedFace(face, positions) ==
    LET pts == FacePoints(face, positions)
    IN  project_to_2d(pts, newell_normal(pts))

RECURSIVE SumTriangleAreas(_, _, _)
SumTriangleAreas(proj, triangles, k) ==
    IF k > Len(triangles) THEN 0
    ELSE Abs(orient(proj[triangles[k][1] + 1], proj[triangles[k][2] + 1],
                    proj[triangles[k][3] + 1]))
         + SumTriangleAreas(proj, triangles, k + 1)

ProperlyCross(a, b, c, d) ==
    /\ orient(a, b, c) * orient(a, b, d) < 0
    /\ orient(c, d, a) * orient(c, d, b) < 0

\* Two edges of the outline that share no corner cross each other.
OutlineCrosses(proj) ==
    LET len == Len(proj)
        nxt(i) == (i % len) + 1
    IN  \E i, j \in 1..len :
            /\ i # j /\ nxt(i) # j /\ nxt(j) # i
            /\ ProperlyCross(proj[i], proj[nxt(i)], proj[j], proj[nxt(j)])

\* The outline of a face seen along one coordinate axis.
DropAxis(pts, axis) ==
    [i \in 1..Len(pts) |->
        IF axis = 1 THEN [x |-> pts[i][2], y |-> pts[i][3]]
        ELSE IF axis = 2 THEN [x |-> pts[i][1], y |-> pts[i][3]]
        ELSE [x |-> pts[i][1], y |-> pts[i][2]]]

\* The projected outline of a face is its outline seen along the dominant axis
\* of its Newell normal; a face whose Newell normal vanishes (such as the
\* symmetric bow-tie) has no dominant axis and is seen along any axis.
ProjectedOutlineCrosses(face, positions) ==
    LET pts == FacePoints(face, positions)
    IN  IF newell_normal(pts) = <<0, 0, 0>>
        THEN \E axis \in 1..3 : OutlineCrosses(DropAxis(pts, axis))
        ELSE OutlineCrosses(ProjectedFace(face, positions))

ExpectedShade(c, i) ==
    LET b == ((i % 11) * 60) \div 10 + 44
    IN  [k \in 1..3 |-> IF c[k] * b >= 110 * 1100 THEN 1100 ELSE (c[k] * b) \div 110]

TrianglesOf(mesh, v) == {i \in 0..(TriangleCount(mesh.indices) - 1) : v \in Triangle(mesh.indices, i)}

LastTriangleOf(mesh, v) == CHOOSE i \in TrianglesOf(mesh, v) : \A o \in TrianglesOf(mesh, v) : o <= i

\* C6 as claimed: after SceneModel::new(meshes, base) every vertex referenced by
\* triangle i of a mesh has color = min(base x brightness(i), 1).
C6_EveryTriangleVertexShaded ==
    scene.state = "new" =>
        \A m \in 1..Len(scene.meshes) :
            \A i \in 0..(TriangleCount(scene.meshes[m].indices) - 1) :
                \A v \in Triangle(scene.meshes[m].indices, i) :
                    scene.meshes[m].vertices[v + 1].color = ExpectedShade(scene.base_color, i)

\* C6 as amended: after SceneModel::new(meshes, base) every referenced vertex has
\* color (and new_color) = min(base x brightness(i), 1) for the last triangle i
\* of its mesh that references it, the ordinal restarting at 0 in each mesh.
C6_LastTriangleShades ==
    scene.state = "new" =>
        \A m \in 1..Len(scene.meshes) :
            \A v \in Range(scene.meshes[m].indices) :
                LET vertex == scene.meshes[m].vertices[v + 1]
                    expected == ExpectedShade(scene.base_color,
                                              LastTriangleOf(scene.meshes[m], v))
                IN  vertex.color = expected /\ vertex.new_color = expected

\* A constructed model of two meshes, the second a fan of twelve triangles
\* around a shared vertex (the ramp wraps at the twelfth).
C6_Witness ==
    /\ scene.state = "new"
    /\ Len(scene.meshes) = 2
    /\ TriangleCount(scene.meshes[2].indices) = 12
    /\ Cardinality(TrianglesOf(scene.meshes[2], 0)) = 12
    /\ scene.base_color = <<1100, 0, 1210>>
    /\ scene.meshes[2].vertices[12].color = <<1040, 0, 1100>>
    /\ scene.meshes[2].vertices[1].color = <<440, 0, 484>>

\* C7 as claimed: after change_color(c) the color of every vertex of triangle i
\* is min(c x brightness(i), 1).
C7_ColorFollowsChange ==
    scene.state = "recolored" =>
        \A m \in 1..Len(scene.meshes) :
            \A i \in 0..(TriangleCount(scene.meshes[m].indices) - 1) :
                \A v \in Triangle(scene.meshes[m].indices, i) :
                    scene.meshes[m].vertices[v + 1].color = ExpectedShade(scene.base_color, i)

\* C7 as amended: after change_color(c) the new_color of every referenced vertex
\* is min(c x brightness(i), 1) for the last triangle i of its mesh that
\* references it, which is the colour SceneModel::new gives that vertex for the
\* base colour c.
C7_NewColorFollowsChange ==
    scene.state = "recolored" =>
        \A m \in 1..Len(scene.meshes) :
            LET mesh == scene.meshes[m]
                fresh == apply_face_shading(mesh.vertices, mesh.indices, scene.base_color)
            IN  \A v \in Range(mesh.indices) :
                    /\ mesh.vertices[v + 1].new_color
                         = ExpectedShade(scene.base_color, LastTriangleOf(mesh, v))
                    /\ mesh.vertices[v + 1].new_color = fresh[v + 1].color

\* A model built with one colour and changed to another: the pending colour of
\* the twelfth triangle follows the new colour, its color does not.
C7_Witness ==
    /\ scene.state = "recolored"
    /\ Len(scene.meshes[1].vertices) = 36
    /\ scene.base_color = <<0, 1210, 330>>
    /\ scene.meshes[1].vertices[36].new_color = <<0, 484, 132>>
    /\ scene.meshes[1].vertices[36].color = <<264, 264, 264>>

(***************************************************************************)
(* Files offered to load and build_scene_model                             *)
(***************************************************************************)
MaxLines == 7
MaxStoredFaces == 2
MaxMtlFiles == 2

ModelPath == <<"d", "/", "o", ".", "o", "b", "j">>

StrA == <<"A">>
StrB == <<"B">>
StrComment == <<"#", "c">>

\* The material files next to the model: d/m.mtl defines A with a BMP
\* diffuse map and B with a PNG diffuse map; no other file exists.
MtlFiles ==
    <<"d", "/", "m", ".", "m", "t", "l">> :>
        << <<StrNewmtl, StrA>>,
           <<StrMapKd, <<"a", ".", "B", "m", "p">>>>,
           <<>>,
           <<StrNewmtl, StrB>>,
           <<StrMapKd, <<"b", ".", "p", "n", "g">>>>,
           <<StrMapKs, <<"s", ".", "b", "m", "p">>>> >>
    @@
    <<"d", "/", "n", ".", "m", "t", "l">> :>
        << <<StrNewmtl, StrA>>,
           <<StrMapKd, <<"c", ".", "b", "m", "p">>>> >>

FallbackPaths == { <<>>, <<"t", ".", "b", "m", "p">> }

\* The k-th v line of a file names the k-th point of TriPositions; the first
\* may carry a fourth component, and the third may be stood up into the plane
\* y = 0 (x, y, z -> x, z, y), which with the first two makes a triangle
\* that has no extent in y.  A v line may also lack a component or carry a
\* word that is no number.
VLines(st) ==
    {<<StrV, <<"0">>, <<"0">>>>, <<StrV, <<"0">>, <<"x">>, <<"0">>>>}
        \cup (IF Len(st.positions) < Len(TriPositions)
              THEN LET pos == TriPositions[Len(st.positions) + 1]
                   IN  {<<StrV, IntToStr(pos[1]), IntToStr(pos[2]), IntToStr(pos[3])>>}
              ELSE {})
        \cup (IF st.positions = <<>>
              THEN {<<StrV, <<"0">>, <<"0">>, <<"0">>, <<"1">>>>}
              ELSE {})
        \cup (IF Len(st.positions) = 2
              THEN LET pos == TriPositions[3]
                   IN  {<<StrV, IntToStr(pos[1]), IntToStr(pos[3]), IntToStr(pos[2])>>}
              ELSE {})

VnLines(st) ==
    {<<StrVn, <<"0">>, <<"0">>, <<"1">>>>, <<StrVn, <<"0">>, <<"0">>>>,
     <<StrVn, <<"0">>, <<"0">>, <<"1">>, <<"0">>>>}

VtLines(st) ==
    LET k == Len(st.texcoords)
    IN  {<<StrVt, IntToStr(k % 2), IntToStr((k \div 2) % 2)>>, <<StrVt, <<"0">>>>}

Tk(p) == FormatFaceToken(p, None, None)
TkT(p, t) == FormatFaceToken(p, Some(t), None)
TkN(p, n) == FormatFaceToken(p, None, Some(n))
TkTN(p, t, n) == FormatFaceToken(p, Some(t), Some(n))

\* Triangles and a quadrilateral in each token form, with absolute and
\* relative indices, with a trailing comment; lines with index 0, with too few
\* corners, with a comment among the first three corners, with a word that is
\* no index and with a token of four fields.
FaceLines ==
    { <<StrF, Tk(1), Tk(2), Tk(3)>>,
      <<StrF, Tk(1), Tk(3), Tk(4)>>,
      <<StrF, Tk(1), Tk(2), Tk(3), Tk(4)>>,
      <<StrF, Tk(-3), Tk(-2), Tk(-1)>>,
      <<StrF, Tk(1), Tk(2), Tk(-4)>>,
      <<StrF, TkT(1, 1), TkT(2, 1), TkT(3, -1)>>,
      <<StrF, TkT(1, 1), Tk(2), Tk(3)>>,
      <<StrF, TkN(1, 1), TkN(2, 1), TkN(3, -1)>>,
      <<StrF, TkTN(1, 1, 1), TkTN(2, 1, 1), TkTN(3, 1, 1)>>,
      <<StrF, Tk(1), Tk(2), Tk(3), StrComment>>,
      <<StrF, Tk(0), Tk(1), Tk(2)>>,
      <<StrF, TkT(1, 0), Tk(2), Tk(3)>>,
      <<StrF, TkN(1, 0), Tk(2), Tk(3)>>,
      <<StrF, Tk(1), Tk(2)>>,
      <<StrF, Tk(1), Tk(2), StrComment, Tk(3)>>,
      <<StrF, Tk(1), Tk(2), <<"x">>>>,
      <<StrF, <<"1", "/", "1", "/", "1", "/", "1">>, Tk(2), Tk(3)>> }

UsemtlLines ==
    { <<StrUsemtl, StrA>>, <<StrUsemtl, StrB>>, <<StrUsemtl>>,
      <<StrUsemtl, StrComment>> }

MtllibLines ==
    { <<StrMtllib, <<"m", ".", "m", "t", "l">>>>,
      <<StrMtllib, <<"n", ".", "m", "t", "l">>>>,
      <<StrMtllib, <<"m", ".", "m", "t", "l">>, <<"n", ".", "m", "t", "l">>>>,
      <<StrMtllib, <<"x", ".", "m", "t", "l">>>>,
      <<StrMtllib>> }

\* A blank line, a comment and a directive the loader does not know.
OtherLines == { <<>>, <<StrComment>>, <<<<"o">>, StrA>> }

StoredFaces(st) ==
    LET keys == DOMAIN st.material_faces
        RECURSIVE Sum(_)
        Sum(ks) == IF ks = {} THEN 0
                   ELSE LET k == CHOOSE k \in ks : TRUE
                        IN  Len(st.material_faces[k]) + Sum(ks \ {k})
    IN  Sum(keys)

\* The orders in which a HashMap may yield the given keys.
Orders(keys) ==
    {order \in [1..Cardinality(keys) -> keys] :
        \A i, j \in 1..Cardinality(keys) : order[i] = order[j] => i = j}

(***************************************************************************)
(* Specification of load followed by build_scene_model                     *)
(***************************************************************************)
\* ld.pc: "idle" (no call), "parsing" (in the loop over the lines), "loaded"
\* (load returned Ok), "built" (build_scene_model returned Ok), "error".
LoadStart(triangulate) ==
    [pc |-> "parsing", path |-> ModelPath,
     options |-> [triangulate |-> triangulate, single_index |-> FALSE],
     line_number |-> 0, line |-> <<>>,
     positions |-> <<>>, normals |-> <<>>, texcoords |-> <<>>,
     current_material |-> None, material_faces |-> <<>>, mtl_files |-> <<>>,
     err |-> NoError, order |-> <<>>, objects |-> <<>>, materials |-> <<>>,
     fallback_texture_path |-> <<>>]

Init ==
    /\ ld \in {LoadStart(triangulate) : triangulate \in BOOLEAN}
    /\ tok = TokIdle
    /\ tri = TriIdle
    /\ scene = SceneIdle
    /\ bmp = BmpIdle
    /\ img = ImgIdle
    /\ mtl = MtlIdle

\* The lines a file may go on with: any line while fewer than MaxLines were
\* read, a face line only while fewer than MaxStoredFaces faces are stored,
\* an mtllib line only while fewer than MaxMtlFiles files are named.
LinesOffered(st) ==
    VLines(st) \cup VnLines(st) \cup VtLines(st) \cup UsemtlLines \cup OtherLines
        \cup (IF Len(st.mtl_files) < MaxMtlFiles THEN MtllibLines ELSE {})
        \cup (IF StoredFaces(st) < MaxStoredFaces THEN FaceLines ELSE {})

\* One more line of the file is read.
ReadLine ==
    /\ ld.pc = "parsing"
    /\ ld.line_number < MaxLines
    /\ \E parts \in LinesOffered(ld) : ld' = load_line(ld, parts)
    /\ UNCHANGED <<tok, tri, scene, bmp, img, mtl>>

\* The file ends: load reads the material files and assembles the meshes.
EndOfFile ==
    /\ ld.pc = "parsing"
    /\ \E order \in Orders(DOMAIN ld.material_faces) :
            ld' = finish_load(ld, order, MtlFiles)
    /\ UNCHANGED <<tok, tri, scene, bmp, img, mtl>>

\* build_scene_model, which calls load with triangulate: true, goes on with
\* the loaded scene.
BuildSceneModel ==
    /\ ld.pc = "loaded"
    /\ ld.options.triangulate
    /\ \E fallback_texture_path \in FallbackPaths :
        LET built == build_scene_model(ld, fallback_texture_path)
        IN  IF built.ok
            THEN /\ ld' = [ld EXCEPT !.pc = "built",
                                     !.fallback_texture_path = fallback_texture_path]
                 /\ scene' = [state |-> "new"] @@ built.model
            ELSE /\ ld' = [ld EXCEPT !.pc = "error", !.err = built.err,
                                     !.fallback_texture_path = fallback_texture_path]
                 /\ UNCHANGED scene
    /\ UNCHANGED <<tok, tri, bmp, img, mtl>>

Next == ReadLine \/ EndOfFile \/ BuildSceneModel

Spec == Init /\ [][Next]_vars

\* load called a second time on the same file: the lines read are the same,
\* the HashMap is a new one and yields its keys in an order of its own.
\* ld.pc becomes "reloaded" and ld.again holds the objects of the second call.
LoadAgain ==
    /\ ld.pc = "loaded"
    /\ \E order \in Orders(DOMAIN ld.material_faces) :
            ld' = [again |-> finish_load([ld EXCEPT !.pc = "parsing"], order,
                                         MtlFiles).objects]
                    @@ [ld EXCEPT !.pc = "reloaded"]
    /\ UNCHANGED <<tok, tri, scene, bmp, img, mtl>>

NextTwice == ReadLine \/ EndOfFile \/ LoadAgain

SpecTwice == Init /\ [][NextTwice]_vars

(***************************************************************************)
(* The file read so far, told from the loader's state                      *)
(***************************************************************************)
IsFaceLine(line) == Len(line) >= 1 /\ line[1] = StrF

\* The face tokens of an f line: its words after the directive, up to the
\* first word that starts a comment.
FaceTokensOf(line) ==
    {line[i] : i \in {k \in 2..Len(line) : \A j \in 2..k : line[j][1] # "#"}}

\* A token with a field that is 0, above the count of its kind or below
\* minus that count.
BadFaceToken(token, st) ==
    \E f \in FormattedTokens :
        /\ f.token = token
        /\ \/ ~IndexInRange(f.p, Len(st.positions))
           \/ ~OptInRange(f.t, Len(st.texcoords))
           \/ ~OptInRange(f.n, Len(st.normals))

CornerInRange(c, st) ==
    /\ c.p \in 0..(Len(st.positions) - 1)
    /\ IsSome(c.t) => Unwrap(c.t) \in 0..(Len(st.texcoords) - 1)
    /\ IsSome(c.n) => Unwrap(c.n) \in 0..(Len(st.normals) - 1)

\* The corners stored in a bucket, face after face.
BucketCorners(st, key) ==
    LET faces == st.material_faces[key]
    IN  [k \in 1..(3 * Len(faces)) |-> faces[((k - 1) \div 3) + 1][((k - 1) % 3) + 1]]

\* C2: an f line with a token whose position, texcoord or normal index is 0,
\* refers forward or lies below -count makes load fail; every corner stored in
\* a bucket indexes an existing entry, and each assembled mesh holds one
\* position and one normal per corner.
C2_BadIndexFails ==
    ld.pc # "idle" =>
        /\ (IsFaceLine(ld.line) /\ \E token \in FaceTokensOf(ld.line) : BadFaceToken(token, ld))
                => ld.pc = "error"
        /\ \A key \in DOMAIN ld.material_faces :
                \A f \in 1..Len(ld.material_faces[key]) :
                    \A c \in 1..Len(ld.material_faces[key][f]) :
                        CornerInRange(ld.material_faces[key][f][c], ld)
        /\ ld.pc \in {"loaded", "built"} =>
                \A i \in 1..Len(ld.objects) :
                    /\ Len(ld.objects[i].mesh.positions)
                            = 3 * Len(BucketCorners(ld, ld.order[i]))
                    /\ Len(ld.objects[i].mesh.normals)
                            = 3 * Len(BucketCorners(ld, ld.order[i]))

\* The line f 1 2 3 4 read after three v lines: a forward reference.
C2_Witness ==
    /\ ld.pc = "error"
    /\ ld.line = <<StrF, Tk(1), Tk(2), Tk(3), Tk(4)>>
    /\ Len(ld.positions) = 3
    /\ ld.line_number = 4
    /\ ld.err = LineError("out of bounds", 4)

\* C3: in the mesh of a bucket, two corners with the same (position,
\* texcoord, normal) indices are one vertex with one index; each mesh holds
\* one vertex per distinct corner of its own bucket, so equal corners of two
\* buckets are separate vertices.
C3_EqualCornersShareVertex ==
    ld.pc = "loaded" =>
        \A i \in 1..Len(ld.objects) :
            LET corners == BucketCorners(ld, ld.order[i])
                mesh == ld.objects[i].mesh
            IN  /\ Len(mesh.indices) = Len(corners)
                /\ \A a, b \in 1..Len(corners) :
                        (corners[a] = corners[b]) <=> (mesh.indices[a] = mesh.indices[b])
                /\ Len(mesh.positions) = 3 * Cardinality(Range(corners))

EveryCornerHasTexcoord(corners) == \A k \in 1..Len(corners) : IsSome(corners[k].t)

\* C4: a mesh publishes a texcoord for every vertex, and has_uv_mapping is
\* true, exactly when every corner of its bucket resolved a texcoord index;
\* otherwise its texcoord buffer is empty and has_uv_mapping is false.
C4_UvOnlyWhenEveryCornerHasTexcoord ==
    ld.pc \in {"loaded", "built"} =>
        \A i \in 1..Len(ld.objects) :
            LET every == EveryCornerHasTexcoord(BucketCorners(ld, ld.order[i]))
                mesh == ld.objects[i].mesh
            IN  /\ Len(mesh.texcoords)
                    = IF every THEN 2 * (Len(mesh.positions) \div 3) ELSE 0
                /\ ld.pc = "built" => (scene.meshes[i].has_uv_mapping <=> every)

\* A scene of two meshes: in one bucket only the first corner has a
\* texcoord, in the other every corner has one.
C4_Witness ==
    /\ ld.pc = "built"
    /\ Len(ld.objects) = 2
    /\ \E i, j \in 1..2 :
        /\ \E k \in 1..3 : IsSome(BucketCorners(ld, ld.order[i])[k].t)
        /\ ~EveryCornerHasTexcoord(BucketCorners(ld, ld.order[i]))
        /\ ~scene.meshes[i].has_uv_mapping
        /\ ld.objects[i].mesh.texcoords = <<>>
        /\ EveryCornerHasTexcoord(BucketCorners(ld, ld.order[j]))
        /\ scene.meshes[j].has_uv_mapping
        /\ Len(ld.objects[j].mesh.texcoords) = 6

\* The file of three v lines followed by f 1 2 3, with no other line.
IsTriangleFile(st) ==
    /\ st.line_number = 4
    /\ st.line = <<StrF, Tk(1), Tk(2), Tk(3)>>
    /\ Len(st.positions) = 3
    /\ st.normals = <<>> /\ st.texcoords = <<>>
    /\ st.mtl_files = <<>> /\ st.current_material = None

\* One mesh with index buffer [0,1,2], three vertices, no UV mapping, every
\* vertex coloured 0.6 x 0.4 = 0.24 per channel.
IsTriangleScene ==
    /\ Len(scene.meshes) = 1
    /\ scene.meshes[1].indices = <<0, 1, 2>>
    /\ Len(scene.meshes[1].vertices) = 3
    /\ ~scene.meshes[1].has_uv_mapping
    /\ \A v \in 1..3 : scene.meshes[1].vertices[v].color = <<264, 264, 264>>

\* C5 as stated: building a scene from three v lines and f 1 2 3 succeeds
\* and yields that one mesh.
C5_TriangleFileBuilds ==
    (ld.pc \in {"built", "error"} /\ IsTriangleFile(ld))
        => (ld.pc = "built" /\ IsTriangleScene)

\* C5, amended: building a scene from three v lines and f 1 2 3 with a
\* non-empty fallback texture path succeeds and yields that one mesh.
C5_TriangleFileBuildsWithFallback ==
    (ld.pc \in {"built", "error"} /\ IsTriangleFile(ld)
        /\ ld.fallback_texture_path # <<>>)
        => (ld.pc = "built" /\ IsTriangleScene)

C5_Witness ==
    /\ ld.pc = "built"
    /\ IsTriangleFile(ld)
    /\ ld.fallback_texture_path # <<>>
    /\ IsTriangleScene

\* The naive fan of a face: (corner 0, corner i, corner i+1).
NaiveFan(face) ==
    [i \in 1..(Len(face) - 2) |-> <<face[1], face[i + 1], face[i + 2]>>]

\* The triangles the Face Triangulator gives for a face: its Robust
\* triangles, or the naive fan when it answers FallbackFan.
TriangulatorTriangles(face, positions) ==
    LET outcome == triangulate_face(face, positions)
    IN  IF outcome = FallbackFan THEN NaiveFan(face)
        ELSE [k \in 1..Len(outcome.triangles) |->
                <<face[outcome.triangles[k][1] + 1],
                  face[outcome.triangles[k][2] + 1],
                  face[outcome.triangles[k][3] + 1]>>]

\* C10: with triangulate=true, the triangles an f line of more than three
\* corners appends to the current bucket are those of the Face Triangulator.
C10_TriangulatorDecides ==
    (ld.pc = "parsing" /\ ld.options.triangulate /\ IsFaceLine(ld.line))
        => LET face == ParseFaceItems(Tail(ld.line), <<>>, ld).face
               expected == TriangulatorTriangles(face, ld.positions)
               bucket == ld.material_faces[ld.current_material]
           IN  Len(face) > 3 =>
                /\ Len(bucket) >= Len(expected)
                /\ SubSeq(bucket, Len(bucket) - Len(expected) + 1, Len(bucket)) = expected

(***************************************************************************)
(* Claims about the textures of the built meshes                           *)
(***************************************************************************)
\* The directory of the OBJ file d/o.obj, and a path below it.
ObjDir == <<"d">>
InObjDir(relative) == ObjDir \o <<"/">> \o relative

\* The material record the i-th loaded object refers to, if any.
HasMaterial(i) ==
    /\ IsSome(ld.objects[i].mesh.material_id)
    /\ Unwrap(ld.objects[i].mesh.material_id) < Len(ld.materials)
MaterialOfObject(i) == ld.materials[Unwrap(ld.objects[i].mesh.material_id) + 1]
DefinesDiffuse(i) ==
    HasMaterial(i) /\ IsSome(MaterialOfObject(i).diffuse_texture)
DiffuseOfObject(i) == Unwrap(MaterialOfObject(i).diffuse_texture)

DiffuseRef(path) == [path |-> path, kind |-> "Diffuse"]

\* C11 as stated: in a built scene a mesh whose material defines map_Kd has
\* the Diffuse texture ref of that path joined to the OBJ directory, and every
\* other mesh has the caller-supplied path.
C11_MaterialDiffuseBeforeFallback ==
    ld.pc = "built" =>
        \A i \in 1..Len(scene.meshes) :
            scene.meshes[i].textures[1] =
                IF DefinesDiffuse(i) THEN DiffuseRef(InObjDir(DiffuseOfObject(i)))
                ELSE DiffuseRef(ld.fallback_texture_path)

\* C11, amended: in a built scene every mesh has the caller-supplied path as
\* its Diffuse texture ref when that path is non-empty; when it is empty,
\* every mesh has a material that defines map_Kd and its Diffuse texture ref
\* is that path joined to the OBJ directory.
C11_FallbackBeforeMaterialDiffuse ==
    ld.pc = "built" =>
        \A i \in 1..Len(scene.meshes) :
            IF ld.fallback_texture_path # <<>>
            THEN scene.meshes[i].textures[1] = DiffuseRef(ld.fallback_texture_path)
            ELSE /\ DefinesDiffuse(i)
                 /\ scene.meshes[i].textures[1] =
                        DiffuseRef(InObjDir(DiffuseOfObject(i)))

C11_Witness ==
    /\ ld.pc = "built"
    /\ ld.fallback_texture_path = <<>>
    /\ Len(scene.meshes) = 1
    /\ DefinesDiffuse(1)
    /\ scene.meshes[1].textures[1] =
            DiffuseRef(<<"d", "/", "a", ".", "B", "m", "p">>)

\* C12: whenever build_scene_model is given a non-empty fallback texture
\* path and the load succeeded, the build succeeds and the first texture ref
\* of every mesh is Diffuse with exactly that path, whatever map_Kd the
\* material of the mesh names.
C12_FallbackAlwaysResolves ==
    ld.fallback_texture_path # <<>> =>
        /\ ld.pc = "built"
        /\ \A i \in 1..Len(scene.meshes) :
                scene.meshes[i].textures[1] = DiffuseRef(ld.fallback_texture_path)

\* A mesh whose material names a map_Kd that is not a .bmp file.
C12_Witness ==
    /\ ld.pc = "built"
    /\ ld.fallback_texture_path # <<>>
    /\ \E i \in 1..Len(scene.meshes) :
            /\ DefinesDiffuse(i)
            /\ ~is_bmp_path(DiffuseOfObject(i))
            /\ scene.meshes[i].textures[1] = DiffuseRef(ld.fallback_texture_path)

(***************************************************************************)
(* Claims about material ids                                               *)
(***************************************************************************)
\* The loaded scene with the material id of object i replaced by id.
WithMaterialId(i, id) ==
    [ld EXCEPT !.objects[i].mesh.material_id = Some(id)]

\* Ids just past the end of the materials table.
DanglingIds == Len(ld.materials)..(Len(ld.materials) + 1)

DanglingIdFailsBuild ==
    \A i \in 1..Len(ld.objects) : \A id \in DanglingIds :
        \A fallback_texture_path \in FallbackPaths :
            LET built == build_scene_model(WithMaterialId(i, id),
                                           fallback_texture_path)
            IN  /\ ~built.ok
                /\ fallback_texture_path # <<>> =>
                        built.err.msg = "OBJ mesh references unknown material id"

\* C13: after a successful load every mesh's material id is absent or below
\* the length of the materials table, and the same scene with a material id
\* at or past the end of the table makes build_scene_model return an error.
C13_MaterialIdIndexesTable ==
    ld.pc \in {"loaded", "built"} =>
        /\ \A i \in 1..Len(ld.objects) :
                \/ ld.objects[i].mesh.material_id = None
                \/ /\ Unwrap(ld.objects[i].mesh.material_id) >= 0
                   /\ Unwrap(ld.objects[i].mesh.material_id) < Len(ld.materials)
        /\ DanglingIdFailsBuild

C13_Witness ==
    /\ ld.pc = "loaded"
    /\ Len(ld.materials) = 2
    /\ \E i \in 1..Len(ld.objects) : ld.objects[i].mesh.material_id = Some(1)
    /\ \E i \in 1..Len(ld.objects) : ld.objects[i].mesh.material_id = None
    /\ DanglingIdFailsBuild

(***************************************************************************)
(* Claims about usemtl and the buckets                                     *)
(***************************************************************************)
\* A usemtl line that names a material, and the name it sets.
NamesMaterial(line) ==
    /\ Len(line) >= 2
    /\ line[1] = StrUsemtl
    /\ line[2][1] # "#"
UsemtlName(line) == line[2]

\* The faces of bucket key, none if there is no such bucket.
BucketOf(material_faces, key) ==
    IF key \in DOMAIN material_faces THEN material_faces[key] ELSE <<>>

\* Bucket key holds what it held before, followed by at least one face.
BucketGrew(before, after, key) ==
    /\ key \in DOMAIN after
    /\ Len(after[key]) > Len(BucketOf(before, key))
    /\ SubSeq(after[key], 1, Len(BucketOf(before, key))) = BucketOf(before, key)

\* A line was read and accepted.
LineAccepted ==
    /\ ld.pc = "parsing" /\ ld'.pc = "parsing"
    /\ ld'.line_number = ld.line_number + 1

\* The material name in force changes with a usemtl line that names one, to
\* that name, and with no other line.
CurrentMaterialFollowsUsemtl ==
    LineAccepted =>
        ld'.current_material =
            IF NamesMaterial(ld'.line) THEN Some(UsemtlName(ld'.line))
            ELSE ld.current_material

\* A face line adds faces to the bucket of the name in force and leaves the
\* other buckets alone; no other line touches a bucket.
FacesGoToCurrentBucket ==
    LineAccepted =>
        IF IsFaceLine(ld'.line)
        THEN /\ BucketGrew(ld.material_faces, ld'.material_faces, ld.current_material)
             /\ \A key \in DOMAIN ld'.material_faces \ {ld.current_material} :
                    /\ key \in DOMAIN ld.material_faces
                    /\ ld'.material_faces[key] = ld.material_faces[key]
        ELSE ld'.material_faces = ld.material_faces

\* The mesh of bucket N refers to a material named N; it refers to none when
\* the bucket has no name or the table has no material of that name.
MeshesCarryBucketMaterial ==
    ld.pc \in {"loaded", "built"} =>
        /\ Len(ld.objects) = Len(ld.order)
        /\ \A i \in 1..Len(ld.objects) :
            LET id == ld.objects[i].mesh.material_id
                named == {k \in 1..Len(ld.materials) :
                            Some(ld.materials[k].name) = ld.order[i]}
            IN  IF named = {} THEN id = None
                ELSE IsSome(id) /\ (Unwrap(id) + 1) \in named

\* C14: a face goes to the bucket of the name set by the most recent
\* preceding usemtl line (the no-material bucket before any usemtl), and the
\* mesh built from the bucket named N has as material_id the index of a
\* material named N in the returned table.
C14_FacesFollowUsemtl ==
    /\ []MeshesCarryBucketMaterial
    /\ [][CurrentMaterialFollowsUsemtl /\ FacesGoToCurrentBucket]_vars

\* A file with a face before any usemtl and a face after usemtl B.
C14_Witness ==
    /\ ld.pc = "loaded"
    /\ DOMAIN ld.material_faces = {None, Some(StrB)}
    /\ IsFaceLine(ld.line)
    /\ ld.current_material = Some(StrB)
    /\ \E i \in 1..2 : ld.order[i] = Some(StrB)
                        /\ ld.objects[i].mesh.material_id = Some(1)
    /\ \E i \in 1..2 : ld.order[i] = None
                        /\ ld.objects[i].mesh.material_id = None

(***************************************************************************)
(* Claims about the materials table                                        *)
(***************************************************************************)
MaterialRecord(name, diffuse, specular, normal) ==
    [name |-> name, diffuse_texture |-> diffuse, specular_texture |-> specular,
     normal_texture |-> normal]

\* The records of the material files m.mtl and n.mtl, written out by hand.
RecordsOfFile(file_name) ==
    IF file_name = <<"m", ".", "m", "t", "l">>
    THEN << MaterialRecord(StrA, Some(<<"a", ".", "B", "m", "p">>), None, None),
            MaterialRecord(StrB, Some(<<"b", ".", "p", "n", "g">>),
                           Some(<<"s", ".", "b", "m", "p">>), None) >>
    ELSE IF file_name = <<"n", ".", "m", "t", "l">>
    THEN << MaterialRecord(StrA, Some(<<"c", ".", "b", "m", "p">>), None, None) >>
    ELSE <<>>

RECURSIVE RecordsOfFiles(_)
RecordsOfFiles(file_names) ==
    IF file_names = <<>> THEN <<>>
    ELSE RecordsOfFile(Head(file_names)) \o RecordsOfFiles(Tail(file_names))

\* The file names of an accepted mtllib line of up to three words.
IsMtllibLine(line) == Len(line) >= 1 /\ line[1] = StrMtllib
FileNamesOn(line) ==
    IF Len(line) >= 3 /\ line[3][1] # "#" THEN <<line[2], line[3]>>
    ELSE <<line[2]>>

\* The list of material files grows by the names of each mtllib line, in the
\* order they are written, and by nothing else.
MtlFilesFollowMtllib ==
    LineAccepted =>
        ld'.mtl_files =
            IF IsMtllibLine(ld'.line) THEN ld.mtl_files \o FileNamesOn(ld'.line)
            ELSE ld.mtl_files

MaterialsAreConcatenation ==
    ld.pc \in {"loaded", "built"} => ld.materials = RecordsOfFiles(ld.mtl_files)

\* C15: the materials table returned by load is the concatenation, in order
\* of appearance, of the records of every material file named on the mtllib
\* lines, several names per line included; records of equal name from
\* different files are all kept.
C15_MaterialsConcatenated ==
    /\ []MaterialsAreConcatenation
    /\ [][MtlFilesFollowMtllib]_vars

\* One mtllib line naming m.mtl and n.mtl, which both define A.
C15_Witness ==
    /\ ld.pc = "loaded"
    /\ ld.mtl_files = << <<"m", ".", "m", "t", "l">>, <<"n", ".", "m", "t", "l">> >>
    /\ Len(ld.materials) = 3
    /\ ld.materials[1].name = StrA
    /\ ld.materials[3].name = StrA
    /\ ld.materials[1] # ld.materials[3]

(***************************************************************************)
(* Claims about the number of triangles                                    *)
(***************************************************************************)
\* The number of corners left once every corner at the position of the one
\* before it is dropped, and then a last corner at the position of the first.
CleanedCount(pts) ==
    LET kept == Cardinality({i \in 1..Len(pts) : i = 1 \/ pts[i] # pts[i - 1]})
    IN  IF kept >= 2 /\ pts[Len(pts)] = pts[1] THEN kept - 1 ELSE kept

FaceOf(indices) == [k \in 1..Len(indices) |-> PlainCorner(indices[k])]

\* (0,0) (2,0) (2,2) (1,1) (0,2): a square with a notch, and a square with
\* one corner lifted out of its plane.
ConcavePentagon == FaceOf(<<0, 1, 2, 7, 3>>)
NonCoplanarQuad == FaceOf(<<0, 1, 8, 3>>)

\* C19: whenever triangulate_face returns Robust(T) for a face that has k
\* corners after consecutive duplicates and a closing duplicate of the first
\* corner are removed, T has exactly k-2 triangles; the concave pentagon gives
\* Robust with 3 triangles and the non-coplanar quad Robust with 2.
C19_RobustTriangleCount ==
    tri.done =>
        /\ tri.out.kind = "Robust" =>
                Len(tri.out.triangles)
                    = CleanedCount(FacePoints(tri.face, TriPositions)) - 2
        /\ tri.face = ConcavePentagon =>
                tri.out.kind = "Robust" /\ Len(tri.out.triangles) = 3
        /\ tri.face = NonCoplanarQuad =>
                tri.out.kind = "Robust" /\ Len(tri.out.triangles) = 2

\* A face of five corners whose first corner is written twice in a row.
C19_Witness ==
    /\ tri.done
    /\ tri.face = FaceOf(<<0, 0, 1, 7, 3>>)
    /\ CleanedCount(FacePoints(tri.face, TriPositions)) = 4
    /\ tri.out.kind = "Robust"
    /\ Len(tri.out.triangles) = 2

(***************************************************************************)
(* Claims about short faces                                                *)
(***************************************************************************)
\* The number of corner tokens of an f line: its words after the directive
\* and before the first word that starts with '#'.
CornerTokenCount(line) ==
    Cardinality({k \in 2..Len(line) : \A j \in 2..k : line[j][1] # "#"})

\* C20: when load has ended on a file whose last line is an f line with
\* fewer than 3 corner tokens before the first token that starts with '#',
\* it has ended in an error that names the line of that face.
C20_ShortFaceNamesLine ==
    (ld.pc # "parsing" /\ IsFaceLine(ld.line) /\ CornerTokenCount(ld.line) < 3)
        => (ld.pc = "error" /\ ld.err.line = ld.line_number)

(***************************************************************************)
(* my_bmp_loader.rs: BMP::read                                             *)
(*                                                                         *)
(* A file is its header fields and its length in bytes; the bytes of the   *)
(* pixel array are not held, each read_exact is recorded by where it reads *)
(* from and where it puts what it read.  A u32 mask is its four bytes,     *)
(* most significant first.  build tells whether arithmetic overflow is     *)
(* checked (a debug build, which panics on it) or wraps (a release build). *)
(***************************************************************************)
\* mem::size_of of the three packed header structs
FileHeaderSize == 14
InfoHeaderSize == 40
ColorHeaderSize == 20

\* 0x4D42
BmpFileType == 19778

I32Max == 2147483647

ExpectedColorHeader ==
    [red_mask |-> <<0, 255, 0, 0>>,
     green_mask |-> <<0, 0, 255, 0>>,
     blue_mask |-> <<0, 0, 0, 255>>,
     alpha_mask |-> <<255, 0, 0, 0>>,
     color_space_type |-> <<115, 82, 71, 66>>]

BmpOk == [outcome |-> "ok", msg |-> ""]
BmpErr(msg) == [outcome |-> "err", msg |-> msg]
BmpPanic(msg) == [outcome |-> "panic", msg |-> msg]

check_color_header(color_header) ==
    IF \/ color_header.red_mask # ExpectedColorHeader.red_mask
       \/ color_header.green_mask # ExpectedColorHeader.green_mask
       \/ color_header.blue_mask # ExpectedColorHeader.blue_mask
       \/ color_header.alpha_mask # ExpectedColorHeader.alpha_mask
    THEN BmpPanic("Unexpected color mask format! The program expects the pixel data to be in the BGRA format")
    ELSE IF color_header.color_space_type # ExpectedColorHeader.color_space_type
    THEN BmpPanic("Unexpected color space type! The program expects sRGB values")
    ELSE BmpOk

\* The while loop of make_stride_aligned.
RECURSIVE AlignUp(_, _)
AlignUp(new_stride, align_stride) ==
    IF new_stride % align_stride # 0 THEN AlignUp(new_stride + 1, align_stride)
    ELSE new_stride

\* u32 arithmetic; the widths offered keep the product below 2^31.
make_stride_aligned(width, bit_count, align_stride) ==
    AlignUp(width * (bit_count \div 8), align_stride)

\* (width * bit_count as i32 / 8) as usize, for width >= 0.  The product is
\* an i32.  When it passes I32Max a debug build panics and a release build
\* wraps it: for a product below 2^32 the wrapped value is negative, so is
\* its eighth, and the cast to usize gives a value of at least 2^63 (huge).
row_stride_of(width, bit_count, build) ==
    IF width > I32Max \div bit_count
    THEN IF build = "debug"
         THEN [outcome |-> "panic", huge |-> FALSE, value |-> 0]
         ELSE [outcome |-> "ok", huge |-> TRUE, value |-> 0]
    ELSE [outcome |-> "ok", huge |-> FALSE, value |-> (width * bit_count) \div 8]

\* One read_exact of len bytes at file position pos; to is the index in data
\* the bytes go to, -1 when they go to padding_row.
ReadRecord(pos, len, to) == [from |-> pos, len |-> len, to |-> to]

\* The for loop over the rows: per row one read into data and one into
\* padding_row.  Ends at the first read_exact that passes the end of file.
RECURSIVE ReadRows(_, _, _, _, _, _, _)
ReadRows(y, height, row_stride, padding_len, pos, file_len, reads) ==
    IF y >= height THEN [ok |-> TRUE, reads |-> reads, pos |-> pos]
    ELSE IF pos + row_stride > file_len
    THEN [ok |-> FALSE, reads |-> reads, pos |-> pos]
    ELSE IF pos + row_stride + padding_len > file_len
    THEN [ok |-> FALSE,
          reads |-> Append(reads, ReadRecord(pos, row_stride, row_stride * y)),
          pos |-> pos + row_stride]
    ELSE ReadRows(y + 1, height, row_stride, padding_len,
                  pos + row_stride + padding_len, file_len,
                  reads \o <<ReadRecord(pos, row_stride, row_stride * y),
                             ReadRecord(pos + row_stride, padding_len, -1)>>)

\* What read leaves behind: how it ended, the reads of the pixel array it
\* made, the length of data and the header fields it rewrote.
ReadResult(end, reads, data_len, info_size, offset, file_size) ==
    [outcome |-> end.outcome, msg |-> end.msg, reads |-> reads,
     data_len |-> data_len, info_size |-> info_size, offset |-> offset,
     file_size |-> file_size]

BmpStopped(file, end) ==
    ReadResult(end, <<>>, 0, file.size, file.offset, 0)

\* Lines 92-200, from the file type on; the file holds both headers whole.
bmp_read(file, build) ==
    IF file.file_type # BmpFileType
    THEN BmpStopped(file, BmpErr("Unrecognized file format"))
    ELSE IF file.bit_count = 32 /\ file.size < InfoHeaderSize + ColorHeaderSize
    THEN BmpStopped(file, BmpErr("Unrecognized file format"))
    ELSE IF file.bit_count = 32
            /\ check_color_header(file.color_header).outcome # "ok"
    THEN BmpStopped(file, check_color_header(file.color_header))
    ELSE
    LET info_size == IF file.bit_count = 32
                     THEN InfoHeaderSize + ColorHeaderSize ELSE InfoHeaderSize
        offset == FileHeaderSize + info_size
        stopped(end) == ReadResult(end, <<>>, 0, info_size, offset, offset)
    IN  IF file.height < 0
        THEN stopped(BmpErr("The program can only treat BMP images with the origin in the bottom left corner"))
        ELSE
        LET row_stride == row_stride_of(file.width, file.bit_count, build)
            new_stride == make_stride_aligned(file.width, file.bit_count, 4)
            \* width * height * bit_count / 8 in usize; the bit counts offered
            \* are multiples of 8
            data_len == file.width * file.height * (file.bit_count \div 8)
        IN  IF row_stride.outcome = "panic"
            THEN stopped(BmpPanic("attempt to multiply with overflow"))
            ELSE IF row_stride.huge
            \* release build: new_stride - row_stride wraps to a length that
            \* vec! can allocate; data is resized as usual
            THEN IF file.width % 4 = 0
                 THEN IF file.offset + data_len > file.len
                      THEN ReadResult(BmpErr("failed to fill whole buffer"), <<>>,
                                     data_len, info_size, offset, offset)
                      ELSE ReadResult(BmpOk,
                                     <<ReadRecord(file.offset, data_len, 0)>>,
                                     data_len, info_size, offset, offset)
                 ELSE ReadResult(BmpPanic("range end index out of range for slice"),
                                <<>>, data_len, info_size, offset, offset)
            ELSE
            LET padding_len == new_stride - row_stride.value
            IN  IF file.width % 4 = 0
                THEN IF file.offset + data_len > file.len
                     THEN ReadResult(BmpErr("failed to fill whole buffer"), <<>>,
                                    data_len, info_size, offset, offset)
                     ELSE ReadResult(BmpOk,
                                    <<ReadRecord(file.offset, data_len, 0)>>,
                                    data_len, info_size, offset, offset)
                ELSE
                LET rows == ReadRows(0, file.height, row_stride.value, padding_len,
                                     file.offset, file.len, <<>>)
                IN  IF ~rows.ok
                    THEN ReadResult(BmpErr("failed to fill whole buffer"),
                                   rows.reads, data_len, info_size, offset, offset)
                    ELSE ReadResult(BmpOk, rows.reads, data_len, info_size, offset,
                                   offset + data_len + file.height * padding_len)

(***************************************************************************)
(* loaders/bmp/image.rs: Image                                             *)
(***************************************************************************)
px(r, g, b) == [r |-> r, g |-> g, b |-> b]

\* file_size!(bpp, width, height): the header size and the data size
file_size(bpp, width, height) ==
    <<2 + 12 + 40, height * (((bpp * width + 31) \div 32) * 4)>>

Image_new(width, height) ==
    [header |-> [file_size |-> file_size(24, width, height)[1]
                                + file_size(24, width, height)[2],
                 pixel_offset |-> file_size(24, width, height)[1]],
     width |-> width,
     height |-> height,
     padding |-> width % 4,
     data |-> [k \in 1..(width * height) |-> px(0, 0, 0)]]

\* The index of pixel (x, y) in data, 0-based.
PixelIndex(image, x, y) == (image.height - y - 1) * image.width + x

get_pixel_TopDown(image, x, y) == image.data[(y * image.width + x) + 1]

get_pixel(image, x, y) == image.data[PixelIndex(image, x, y) + 1]

set_pixel(image, x, y, val) ==
    [image EXCEPT !.data[PixelIndex(image, x, y) + 1] = val]

(***************************************************************************)
(* BMP files and images offered                                            *)
(***************************************************************************)
MaxWidth == 5
MaxHeight == 2

\* The first widths whose row of 24-bit and of 32-bit pixels passes I32Max
\* bits, one of each not a multiple of 4.
WideWidths ==
    { I32Max \div 24 + 1, I32Max \div 24 + 3, I32Max \div 32 + 1, I32Max \div 32 + 2 }

BmpWidths == 1..MaxWidth \cup WideWidths
BmpHeights == {-1} \cup 1..MaxHeight
BitCounts == {8, 24, 32}
InfoSizes == {InfoHeaderSize, 124}
FileTypes == {BmpFileType, 19777}
Builds == {"debug", "release"}

\* The expected colour header and the five that differ from it in one field.
ColorHeaders ==
    {ExpectedColorHeader}
        \cup {[ExpectedColorHeader EXCEPT ![field] = <<0, 0, 0, 0>>] :
                field \in DOMAIN ExpectedColorHeader}

\* The bytes a row takes in a BMP file: the pixels, rounded up to 4 bytes.
StrideOnDisk(width, bit_count) == ((width * (bit_count \div 8) + 3) \div 4) * 4

\* A file with its pixel array right after the headers, whole or one byte
\* short.
BmpFile(file_type, size, width, height, bit_count, color_header, missing) ==
    [file_type |-> file_type, size |-> size, offset |-> FileHeaderSize + size,
     width |-> width, height |-> height, bit_count |-> bit_count,
     color_header |-> color_header,
     len |-> FileHeaderSize + size
                + (IF height < 0 THEN -height ELSE height)
                    * StrideOnDisk(width, bit_count)
                - missing]

BmpFiles ==
    {BmpFile(file_type, size, width, height, bit_count, color_header, missing) :
        file_type \in FileTypes, size \in InfoSizes, width \in BmpWidths,
        height \in BmpHeights, bit_count \in BitCounts,
        color_header \in ColorHeaders, missing \in {0, 1}}

MaxImageWidth == 3
MaxImageHeight == 2
PixelValues == {px(255, 0, 0)}

(***************************************************************************)
(* Specifications of BMP::read and of Image                                *)
(***************************************************************************)
InitBmp ==
    /\ bmp \in {[done |-> FALSE, build |-> build, file |-> file, res |-> <<>>] :
                    build \in Builds, file \in BmpFiles}
    /\ img = ImgIdle
    /\ mtl = MtlIdle
    /\ tok = TokIdle
    /\ tri = TriIdle
    /\ scene = SceneIdle
    /\ ld = LoadIdle

BmpRead ==
    /\ ~bmp.done
    /\ bmp.file # <<>>
    /\ bmp' = [bmp EXCEPT !.done = TRUE, !.res = bmp_read(bmp.file, bmp.build)]
    /\ UNCHANGED <<tok, tri, scene, ld, img, mtl>>

NextBmp == BmpRead

SpecBmp == InitBmp /\ [][NextBmp]_vars

InitImage ==
    /\ img \in {[image |-> Image_new(width, height), got |-> <<>>] :
                    width \in 1..MaxImageWidth, height \in 1..MaxImageHeight}
    /\ bmp = BmpIdle
    /\ mtl = MtlIdle
    /\ tok = TokIdle
    /\ tri = TriIdle
    /\ scene = SceneIdle
    /\ ld = LoadIdle

\* Coordinates within the image, as ImageIndex yields them.
SetPixel ==
    /\ img.image # <<>>
    /\ \E x \in 0..(img.image.width - 1), y \in 0..(img.image.height - 1),
          val \in PixelValues :
            img' = [img EXCEPT !.image = set_pixel(img.image, x, y, val)]
    /\ UNCHANGED <<tok, tri, scene, ld, bmp, mtl>>

GetPixel ==
    /\ img.image # <<>>
    /\ \E x \in 0..(img.image.width - 1), y \in 0..(img.image.height - 1) :
            img' = [img EXCEPT !.got = <<[x |-> x, y |-> y,
                                          pixel |-> get_pixel(img.image, x, y)]>>]
    /\ UNCHANGED <<tok, tri, scene, ld, bmp, mtl>>

NextImage == SetPixel \/ GetPixel

SpecImage == InitImage /\ [][NextImage]_vars

(***************************************************************************)
(* Claims about Image                                                      *)
(***************************************************************************)
\* Row r of data as stored, r = 0 being the first row stored.
StoredRow(image, r) ==
    SubSeq(image.data, r * image.width + 1, (r + 1) * image.width)

\* A get_pixel call: the image stays, img.got holds the call and its result.
GetPixelReturned ==
    /\ img'.image = img.image
    /\ img'.got # <<>>
    /\ img'.got # img.got

\* C16: get_pixel(x, y) with 0 <= x < w and 0 <= y < h returns the pixel at
\* column x of stored row h-1-y, so get_pixel(0, 0) returns the first pixel
\* of the last row stored.
C16_GetPixelReadsStoredRow ==
    [][GetPixelReturned =>
        LET call == img'.got[1]
            image == img.image
        IN  /\ call.pixel = StoredRow(image, image.height - 1 - call.y)[call.x + 1]
            /\ (call.x = 0 /\ call.y = 0) =>
                    call.pixel = StoredRow(image, image.height - 1)[1]]_vars

\* In a 3 x 2 image only the first pixel of the last stored row is red, and
\* get_pixel(0, 0) returned it.
C16_Witness ==
    /\ img.image # <<>>
    /\ img.image.width = 3 /\ img.image.height = 2
    /\ img.image.data = [k \in 1..6 |-> IF k = 4 THEN px(255, 0, 0) ELSE px(0, 0, 0)]
    /\ img.got = <<[x |-> 0, y |-> 0, pixel |-> px(255, 0, 0)]>>

(***************************************************************************)
(* Claims about BMP::read                                                  *)
(***************************************************************************)
\* A file that is whole, of the BMP file type, bottom-up, with the colour
\* header a 32-bit file needs.
WellFormedBmp(file) ==
    /\ file.file_type = BmpFileType
    /\ file.height >= 1
    /\ file.len = file.offset + file.height * StrideOnDisk(file.width, file.bit_count)
    /\ file.bit_count = 32 =>
            /\ file.size >= InfoHeaderSize + ColorHeaderSize
            /\ file.color_header = ExpectedColorHeader

BytesPerPixel(file) == file.bit_count \div 8
RowBytes(file) == file.width * BytesPerPixel(file)
RowPadding(file) == (4 - (RowBytes(file) % 4)) % 4

\* The position in the file of the byte that read put at data[k].
Covers(rd, k) == rd.to >= 0 /\ rd.to <= k /\ k < rd.to + rd.len
SourceOf(reads, k) ==
    LET rd == CHOOSE r \in Range(reads) : Covers(r, k)
    IN  rd.from + (k - rd.to)

RECURSIVE BytesRead(_)
BytesRead(reads) ==
    IF reads = <<>> THEN 0 ELSE Head(reads).len + BytesRead(Tail(reads))

\* The first and the last byte of row r of data come from the first and the
\* last pixel byte of row r of the file.
RowReadInPlace(file, reads, r) ==
    \A j \in {0, RowBytes(file) - 1} :
        LET k == r * RowBytes(file) + j
        IN  /\ \E rd \in Range(reads) : Covers(rd, k)
            /\ SourceOf(reads, k)
                    = file.offset + r * (RowBytes(file) + RowPadding(file)) + j

\* C17: for every width w >= 1, height h >= 1 and b in {3, 4} bytes per
\* pixel, read consumes per row w*b pixel bytes and (4 - (w*b mod 4)) mod 4
\* padding bytes: it ends well, data holds the h rows of w*b bytes, row r
\* taken from r strides into the pixel array, and h strides are consumed.
C17_RowsAndPadding ==
    (bmp.done /\ WellFormedBmp(bmp.file) /\ BytesPerPixel(bmp.file) \in {3, 4})
        => /\ bmp.res.outcome = "ok"
           /\ bmp.res.data_len = bmp.file.height * RowBytes(bmp.file)
           /\ \A r \in 0..(bmp.file.height - 1) :
                    RowReadInPlace(bmp.file, bmp.res.reads, r)
           /\ BytesRead(bmp.res.reads)
                = bmp.file.height * (RowBytes(bmp.file) + RowPadding(bmp.file))

\* C18: reading a 32-bit file whose colour header differs from the expected
\* masks or colour-space tag ends with a returned error, not with a panic.
C18_BadColorHeaderReturnsError ==
    (/\ bmp.done
     /\ bmp.file.file_type = BmpFileType
     /\ bmp.file.bit_count = 32
     /\ bmp.file.size >= InfoHeaderSize + ColorHeaderSize
     /\ bmp.file.color_header # ExpectedColorHeader)
        => bmp.res.outcome = "err"

(***************************************************************************)
(* Claims about v and vn lines                                             *)
(***************************************************************************)
IsPositionOrNormalLine(line) == Len(line) >= 1 /\ line[1] \in {StrV, StrVn}
ComponentCount(line) == Len(line) - 1

\* C21: once a v or vn line whose number of components is not exactly 3 has
\* been read, load has failed with an error for that line.
C21_ThreeComponentsOrError ==
    (/\ ld.pc \in {"parsing", "error"}
     /\ IsPositionOrNormalLine(ld.line)
     /\ ComponentCount(ld.line) # 3)
        => (ld.pc = "error" /\ ld.err.line = ld.line_number)

(***************************************************************************)
(* Material files offered to load_mtl, and its specification               *)
(***************************************************************************)
MaxMtlLines == 4

MtlPath == <<"d", "/", "l", ".", "m", "t", "l">>

\* Lines of a material file: both newmtl, each texture directive, one with
\* a second value for the same slot, a directive load_mtl does not know, a
\* comment, and two directives without their value.
MtlLineSet ==
    { <<StrNewmtl, StrA>>, <<StrNewmtl, StrB>>, <<StrNewmtl>>,
      <<StrMapKd, <<"a", ".", "b", "m", "p">>>>,
      <<StrMapKd, <<"b", ".", "b", "m", "p">>>>,
      <<StrMapKd>>,
      <<StrMapKs, <<"s", ".", "b", "m", "p">>>>,
      <<StrMapBump, <<"n", ".", "b", "m", "p">>>>,
      <<StrBump, <<"m", ".", "b", "m", "p">>>>,
      <<<<"K", "d">>, <<"1">>, <<"0">>, <<"0">>>>,
      <<StrComment>> }

InitMtl ==
    /\ mtl \in {[lines |-> lines, done |-> FALSE, res |-> <<>>] :
                    lines \in SeqsUpTo(MtlLineSet, 0, MaxMtlLines)}
    /\ tok = TokIdle
    /\ tri = TriIdle
    /\ scene = SceneIdle
    /\ ld = LoadIdle
    /\ bmp = BmpIdle
    /\ img = ImgIdle

LoadMtl ==
    /\ ~mtl.done
    /\ mtl' = [mtl EXCEPT !.done = TRUE,
                          !.res = load_mtl(MtlPath, MtlPath :> mtl.lines)]
    /\ UNCHANGED <<tok, tri, scene, ld, bmp, img>>

NextMtl == LoadMtl

SpecMtl == InitMtl /\ [][NextMtl]_vars

(***************************************************************************)
(* Claims about load_mtl                                                   *)
(***************************************************************************)
TextureDirectives == {StrMapKd, StrMapKs, StrMapBump, StrBump}
IsDirective(line, names) == Len(line) >= 1 /\ line[1] \in names

\* Every newmtl and texture line of the file has its value.
ValuesPresent(lines) ==
    \A i \in 1..Len(lines) :
        IsDirective(lines[i], TextureDirectives \cup {StrNewmtl}) => Len(lines[i]) = 2

\* The numbers of the newmtl lines, in file order.
NewmtlLines(lines) ==
    SelectSeq([i \in 1..Len(lines) |-> i],
              LAMBDA i : IsDirective(lines[i], {StrNewmtl}))

\* The value of the last line with one of the directives after line from and
\* before line to; absent if there is none.
LastValueBetween(lines, from, to, names) ==
    LET at == {i \in (from + 1)..(to - 1) : IsDirective(lines[i], names)}
    IN  IF at = {} THEN None
        ELSE Some(lines[CHOOSE i \in at : \A j \in at : j <= i][2])

ExpectedRecords(lines) ==
    LET starts == NewmtlLines(lines)
        stop(k) == IF k < Len(starts) THEN starts[k + 1] ELSE Len(lines) + 1
    IN  [k \in 1..Len(starts) |->
            [name |-> lines[starts[k]][2],
             diffuse_texture |->
                LastValueBetween(lines, starts[k], stop(k), {StrMapKd}),
             specular_texture |->
                LastValueBetween(lines, starts[k], stop(k), {StrMapKs}),
             normal_texture |->
                LastValueBetween(lines, starts[k], stop(k), {StrMapBump, StrBump})]]

\* C22: load_mtl of a file whose newmtl and texture lines all have a value
\* returns one record per newmtl line, in file order, each with the value of
\* the last map_Kd, map_Ks and map_Bump-or-bump line before the next newmtl
\* (absent if none); texture lines before the first newmtl and directives it
\* does not know add no record and change none.
C22_OneRecordPerNewmtl ==
    (mtl.done /\ ValuesPresent(mtl.lines))
        => /\ mtl.res.ok
           /\ mtl.res.materials = ExpectedRecords(mtl.lines)

\* map_Kd before any newmtl, then A with two map_Kd lines.
C22_Witness ==
    /\ mtl.done
    /\ mtl.lines = << <<StrMapKd, <<"a", ".", "b", "m", "p">>>>,
                      <<StrNewmtl, StrA>>,
                      <<StrMapKd, <<"a", ".", "b", "m", "p">>>>,
                      <<StrMapKd, <<"b", ".", "b", "m", "p">>>> >>
    /\ mtl.res.ok
    /\ mtl.res.materials =
            << MaterialRecord(StrA, Some(<<"b", ".", "b", "m", "p">>), None, None) >>

(***************************************************************************)
(* Claims about materials of equal name                                    *)
(***************************************************************************)
\* The places in the materials table of the records of a given name.
RecordsNamed(name) == {k \in 1..Len(ld.materials) : ld.materials[k].name = name}

\* C23: when several records of the materials table share a name, the mesh
\* of the bucket of that name refers to the last of them.
C23_LastDefinitionWins ==
    ld.pc \in {"loaded", "built"} =>
        \A i \in 1..Len(ld.objects) :
            (IsSome(ld.order[i]) /\ RecordsNamed(Unwrap(ld.order[i])) # {}) =>
                LET named == RecordsNamed(Unwrap(ld.order[i]))
                    last == CHOOSE k \in named : \A j \in named : j <= k
                IN  ld.objects[i].mesh.material_id = Some(last - 1)

\* A defined by m.mtl and again by n.mtl, read in that order.
C23_Witness ==
    /\ ld.pc = "loaded"
    /\ Len(ld.materials) = 3
    /\ RecordsNamed(StrA) = {1, 3}
    /\ \E i \in 1..Len(ld.objects) :
            ld.order[i] = Some(StrA) /\ ld.objects[i].mesh.material_id = Some(2)

(***************************************************************************)
(* Claims about what change_color leaves alone                             *)
(***************************************************************************)
\* A vertex without its two shading colours.
VertexFrame(v) == [position |-> v.position, normal |-> v.normal, tex_coords |-> v.tex_coords]

MeshFrame(mesh) ==
    [vertices |-> [v \in 1..Len(mesh.vertices) |-> VertexFrame(mesh.vertices[v])],
     indices |-> mesh.indices,
     textures |-> mesh.textures,
     has_uv_mapping |-> mesh.has_uv_mapping]

\* Everything of a model but base_color, color and new_color.
ModelFrame(model) ==
    [meshes |-> [m \in 1..Len(model.meshes) |-> MeshFrame(model.meshes[m])],
     center |-> model.center]

ChangeColorCalled ==
    scene.state \in {"new", "recolored"} /\ scene'.state = "recolored"

\* C24: a change_color call leaves the number of meshes, each mesh's vertex
\* count, positions, normals, texture coordinates, index buffer, texture refs
\* and has_uv_mapping flag, and the cached centre as they were.
C24_ChangeColorFrame ==
    [][ChangeColorCalled => ModelFrame(scene') = ModelFrame(scene)]_vars

\* A recoloured model of two meshes, one textured, whose shading colours
\* differ from the ones of construction.
C24_Witness ==
    /\ scene.state = "recolored"
    /\ Len(scene.meshes) = 2
    /\ \E m \in 1..2 :
            /\ scene.meshes[m].has_uv_mapping
            /\ scene.meshes[m].textures # <<>>
            /\ \E v \in 1..Len(scene.meshes[m].vertices) :
                    scene.meshes[m].vertices[v].new_color # scene.meshes[m].vertices[v].color

(***************************************************************************)
(* Claims about repeated change_color calls                                *)
(***************************************************************************)
\* The SceneModel held in scene.
CurrentModel == [meshes |-> scene.meshes, base_color |-> scene.base_color,
                 center |-> scene.center]

\* C30: on every model, constructed or recoloured, and for every colour c,
\* change_color(c) called twice gives the model change_color(c) called once
\* gives: base_color and every vertex's color and new_color are the same.
C30_ChangeColorIdempotent ==
    scene.state \in {"new", "recolored"} =>
        \A c \in ShadeColors :
            change_color(change_color(CurrentModel, c), c) = change_color(CurrentModel, c)

\* A recoloured model whose colour differs from the colour of construction in
\* some vertex, and on which the call made last changes nothing when repeated.
C30_Witness ==
    /\ scene.state = "recolored"
    /\ \E m \in 1..Len(scene.meshes) : \E v \in 1..Len(scene.meshes[m].vertices) :
            scene.meshes[m].vertices[v].new_color # scene.meshes[m].vertices[v].color
    /\ change_color(CurrentModel, scene.base_color) = CurrentModel

(***************************************************************************)
(* Claims about the planar texture coordinates                             *)
(***************************************************************************)
\* The values the vertices of a built mesh take on an axis (1 = x, 2 = y, 3 = z).
AxisValues(mesh, axis) ==
    {mesh.vertices[v].position[axis] : v \in 1..Len(mesh.vertices)}

Extent(mesh, axis) == SetMax(AxisValues(mesh, axis)) - SetMin(AxisValues(mesh, axis))

\* Axes a and b are two dominant axes: none of them is shorter than the third.
DominantAxes(mesh, a, b) ==
    /\ a # b
    /\ \A c \in (1..3) \ {a, b} :
            Extent(mesh, a) >= Extent(mesh, c) /\ Extent(mesh, b) >= Extent(mesh, c)

\* A position normalised into [0,1] on an axis, as a fraction; 1/2 on an axis
\* without extent.
NormalisedOn(mesh, axis, value) ==
    IF Extent(mesh, axis) = 0 THEN <<1, 2>>
    ELSE <<value - SetMin(AxisValues(mesh, axis)), Extent(mesh, axis)>>

SameFraction(f, g) == f[1] * g[2] = g[1] * f[2]

\* C25: in a built mesh without uv mapping the texture coordinate of every
\* vertex is its position normalised against the mesh's bounding box on two
\* dominant axes of the mesh, 1/2 on an axis without extent.
C25_PlanarUvOnDominantAxes ==
    ld.pc = "built" =>
        \A i \in 1..Len(scene.meshes) :
            LET mesh == scene.meshes[i]
            IN  ~mesh.has_uv_mapping =>
                    \E a, b \in 1..3 :
                        /\ DominantAxes(mesh, a, b)
                        /\ \A v \in 1..Len(mesh.vertices) :
                            /\ SameFraction(mesh.vertices[v].tex_coords[1],
                                    NormalisedOn(mesh, a, mesh.vertices[v].position[a]))
                            /\ SameFraction(mesh.vertices[v].tex_coords[2],
                                    NormalisedOn(mesh, b, mesh.vertices[v].position[b]))

(***************************************************************************)
(* Claims about the index buffers of built meshes                          *)
(***************************************************************************)
\* C26: every mesh of a built model has an index buffer whose length is a
\* multiple of 3 and whose entries are all below the mesh's vertex count, so
\* that every index is part of a whole triangle and names a vertex.
C26_IndicesWholeAndInRange ==
    ld.pc = "built" =>
        \A i \in 1..Len(scene.meshes) :
            LET mesh == scene.meshes[i]
            IN  /\ Len(mesh.indices) % 3 = 0
                /\ \A k \in 1..Len(mesh.indices) :
                        mesh.indices[k] \in 0..(Len(mesh.vertices) - 1)
                /\ TriangleCount(mesh.indices) * 3 = Len(mesh.indices)

\* A built model of two meshes, one of them of two triangles.
C26_Witness ==
    /\ ld.pc = "built"
    /\ Len(scene.meshes) = 2
    /\ \E i \in 1..2 :
            /\ Len(scene.meshes[i].indices) = 6
            /\ Len(scene.meshes[i].vertices) = 6

(***************************************************************************)
(* Claims about the corners of Robust triangles                            *)
(***************************************************************************)
\* The corners (0-based places in the face) left once every corner at the
\* position of the one before it is dropped, and then a last corner at the
\* position of the first.
KeptCorners(pts) ==
    LET kept == {i \in 1..Len(pts) : i = 1 \/ pts[i] # pts[i - 1]}
        last == SetMax(kept)
    IN  {i - 1 : i \in IF Cardinality(kept) >= 2 /\ pts[last] = pts[1]
                        THEN kept \ {last} ELSE kept}

\* a, b, c follow each other in the face, read as a cycle.
InCyclicOrder(a, b, c) ==
    \/ a < b /\ b < c
    \/ b < c /\ c < a
    \/ c < a /\ a < b

\* C27: the triangles of a Robust result name places of the face's corners,
\* three distinct ones each, in the cyclic order of the face, and every
\* corner kept after duplicate removal is in some triangle.
C27_RobustTrianglesOverFace ==
    (tri.done /\ tri.out.kind = "Robust") =>
        LET T == tri.out.triangles
        IN  /\ \A k \in 1..Len(T) :
                    /\ Len(T[k]) = 3
                    /\ \A j \in 1..3 : T[k][j] \in 0..(Len(tri.face) - 1)
                    /\ Cardinality({T[k][1], T[k][2], T[k][3]}) = 3
                    /\ InCyclicOrder(T[k][1], T[k][2], T[k][3])
            /\ \A c \in KeptCorners(FacePoints(tri.face, TriPositions)) :
                    \E k \in 1..Len(T) : \E j \in 1..3 : T[k][j] = c

\* A square whose second corner is written twice: four corners are kept, the
\* places 0, 1, 3 and 4, and the dropped place 2 is in no triangle.
C27_Witness ==
    /\ tri.done
    /\ tri.face = FaceOf(<<0, 1, 1, 2, 3>>)
    /\ tri.out.kind = "Robust"
    /\ KeptCorners(FacePoints(tri.face, TriPositions)) = {0, 1, 3, 4}
    /\ \E k \in 1..Len(tri.out.triangles) : \E j \in 1..3 : tri.out.triangles[k][j] = 4
    /\ \A k \in 1..Len(tri.out.triangles) : \A j \in 1..3 : tri.out.triangles[k][j] # 2

(***************************************************************************)
(* Claims about the passes of ear clipping                                 *)
(***************************************************************************)
\* A pass of the loop of ear_clip has run.
ClipPassTaken == tri.pc = "clip" /\ tri'.passes = tri.passes + 1

\* The pass took exactly one corner out of the remaining list.
OneCornerRemoved ==
    /\ tri'.pc = "clip"
    /\ \E i \in 0..(Len(tri.remaining) - 1) : tri'.remaining = RemoveAt(tri.remaining, i)

EndedWithFallbackFan == tri'.done /\ tri'.out = FallbackFan

\* The most passes a face of k cleaned corners can take.
PassBound ==
    IF tri.face = <<>> THEN 0
    ELSE MaxOf(CleanedCount(FacePoints(tri.face, TriPositions)) - 3, 0)

\* C28: a call of triangulate_face that has entered the ear-clipping loop
\* returns; each pass of the loop takes exactly one corner out of the
\* remaining list or ends the call with FallbackFan; and a face of k cleaned
\* corners takes at most k-3 passes.
C28_EarClippingTerminates ==
    /\ [][ClipPassTaken => (OneCornerRemoved \/ EndedWithFallbackFan)]_vars
    /\ [](tri.passes <= PassBound)
    /\ (tri.pc = "clip") ~> tri.done

\* The notched square, of five cleaned corners, returned after two passes.
C28_Witness ==
    /\ tri.pc = "done"
    /\ tri.face = ConcavePentagon
    /\ tri.out.kind = "Robust"
    /\ tri.passes = 2
    /\ Len(tri.remaining) = 3
    /\ Len(tri.out.triangles) = 3

(***************************************************************************)
(* Claims about the order of the meshes                                    *)
(***************************************************************************)
\* C29: two calls of load on the same file return the same objects in the
\* same order.
C29_SameOrderOnReload ==
    ld.pc = "reloaded" => ld.again = ld.objects

====
